---- MODULE Spec2Model ----
(***************************************************************************)
(* Bootstrap synchronization engine of snow/engine/snowman/bootstrap:      *)
(* the interval tree of pending heights, the gap resolver                  *)
(* (getMissingBlockIDs), the chain linker (process) and the executor       *)
(* (execute), with the acceptor decorator that wraps every parsed block.   *)
(***************************************************************************)
EXTENDS Integers, Sequences, FiniteSets, TLC

\* ------------------------------------------------------------ bounds
\* Highest block height of the small model (heights 1..MaxHeight arrive).
MaxHeight == 3
\* Highest last accepted height the small model starts from.
MaxLastAccepted == 1
\* Number of execute passes one behaviour may start.
MaxPasses == 1
\* Heights of the gap-resolver model (pure function of tree and store).
MaxGapHeight == 7
\* Longest contiguous run drained by the medium executor model.
MaxRun == 66
\* Longest contiguous run drained by the large executor model.
MaxBigRun == 1025
\* Latest Add call of one walk, or gapped interval of one resolution, that
\* an injected storage fault can hit.
MaxFailAt == 2
\* The heights of the trees whose gaps are closed by fetching: 1..MaxFetchHeight.
MaxFetchHeight == 5
\* The calls of Verify, the hook and Accept made on parsed blocks.
MaxParsedCalls == 3

\* ------------------------------------------------------------ constants
batchWritePeriod == 64
iteratorReleasePeriod == 1024

\* ids.Empty, the ID returned when no block is needed.
Empty == 0

\* ------------------------------------------------------------ blocks
\* A well-formed chain: one block per height, its parent one height lower.
\* IDs are opaque; the chain's ID of height h is 100 + h.
IDOf(h) == 100 + h

Block(h) == [ID |-> IDOf(h), Parent |-> IDOf(h - 1), Height |-> h]

\* snowman.Block.Bytes(): the wire form of a block.
Bytes(blk) == <<blk.Height, blk.ID, blk.Parent>>

\* block.Parser.ParseBlock on well-formed bytes.
ParseBlock(bytes) == [ID |-> bytes[2], Parent |-> bytes[3], Height |-> bytes[1]]

\* ------------------------------------------------------------ interval tree
Interval(l, u) == [LowerBound |-> l, UpperBound |-> u]

Contains(i, h) == i.LowerBound <= h /\ h <= i.UpperBound

\* The heights an interval set covers.
Covered(t) == UNION {i.LowerBound .. i.UpperBound : i \in t}

TreeContains(t, h) == \E i \in t : Contains(i, h)

\* The interval of t that covers h (h must be covered).
Covering(t, h) == CHOOSE i \in t : Contains(i, h)

\* Tree.Add that counts a height again when it is inserted again.
TreeAdd_Recount(tr, h) ==
    LET t == tr.tree
        lowerS == {i \in t : i.UpperBound + 1 = h}
        upperS == {i \in t : i.LowerBound = h + 1}
        merged == IF TreeContains(t, h) THEN t
                  ELSE (t \ (lowerS \cup upperS)) \cup
                       {Interval(IF lowerS = {} THEN h
                                 ELSE (CHOOSE i \in lowerS : TRUE).LowerBound,
                                 IF upperS = {} THEN h
                                 ELSE (CHOOSE i \in upperS : TRUE).UpperBound)}
    IN  [tree |-> merged, num |-> tr.num + 1]

\* Tree.Add that never merges: every new height becomes its own interval.
TreeAdd_NoMerge(tr, h) ==
    IF TreeContains(tr.tree, h) THEN tr
    ELSE [tree |-> tr.tree \cup {Interval(h, h)}, num |-> tr.num + 1]

\* Tree.Add: insert height h, merging with the neighbours it touches.
\* tr is [tree, num]: the interval set and the O(1) height counter.
TreeAdd(tr, h) ==
    LET t == tr.tree
        lowerS == {i \in t : i.UpperBound + 1 = h}
        upperS == {i \in t : i.LowerBound = h + 1}
    IN  IF TreeContains(t, h) THEN tr
        ELSE IF lowerS # {} /\ upperS # {}
        THEN LET lo == CHOOSE i \in lowerS : TRUE
                 up == CHOOSE i \in upperS : TRUE
             IN  [tree |-> (t \ {lo, up}) \cup {Interval(lo.LowerBound, up.UpperBound)},
                  num |-> tr.num + 1]
        ELSE IF lowerS # {}
        THEN LET lo == CHOOSE i \in lowerS : TRUE
             IN  [tree |-> (t \ {lo}) \cup {Interval(lo.LowerBound, h)},
                  num |-> tr.num + 1]
        ELSE IF upperS # {}
        THEN LET up == CHOOSE i \in upperS : TRUE
             IN  [tree |-> (t \ {up}) \cup {Interval(h, up.UpperBound)},
                  num |-> tr.num + 1]
        ELSE [tree |-> t \cup {Interval(h, h)}, num |-> tr.num + 1]

\* Tree.Remove that leaves the height counter alone.
TreeRemove_KeepCount(tr, h) ==
    LET t == tr.tree
    IN  IF ~TreeContains(t, h) THEN tr
        ELSE LET c == Covering(t, h)
                 rest == t \ {c}
             IN  [tree |->
                    IF c.LowerBound = c.UpperBound THEN rest
                    ELSE IF c.LowerBound = h
                    THEN rest \cup {Interval(h + 1, c.UpperBound)}
                    ELSE IF c.UpperBound = h
                    THEN rest \cup {Interval(c.LowerBound, h - 1)}
                    ELSE rest \cup {Interval(c.LowerBound, h - 1),
                                    Interval(h + 1, c.UpperBound)},
                  num |-> tr.num]

\* Tree.Remove: drop height h, shrinking or splitting the covering interval.
TreeRemove(tr, h) ==
    LET t == tr.tree
    IN  IF ~TreeContains(t, h) THEN tr
        ELSE LET c == Covering(t, h)
                 rest == t \ {c}
             IN  [tree |->
                    IF c.LowerBound = c.UpperBound THEN rest
                    ELSE IF c.LowerBound = h
                    THEN rest \cup {Interval(h + 1, c.UpperBound)}
                    ELSE IF c.UpperBound = h
                    THEN rest \cup {Interval(c.LowerBound, h - 1)}
                    ELSE rest \cup {Interval(c.LowerBound, h - 1),
                                    Interval(h + 1, c.UpperBound)},
                  num |-> tr.num - 1]

\* Tree.Flatten: the intervals in ascending order of lower bound.
RECURSIVE FlattenFrom(_)
FlattenFrom(t) ==
    IF t = {} THEN <<>>
    ELSE LET m == CHOOSE i \in t : \A j \in t : i.LowerBound <= j.LowerBound
         IN  <<m>> \o FlattenFrom(t \ {m})

\* Flatten that walks the tree from the highest interval down.
Flatten_Descending(t) ==
    LET f == FlattenFrom(t)
    IN  [k \in 1 .. Len(f) |-> f[Len(f) + 1 - k]]

Flatten(t) == FlattenFrom(t)

\* Tree.Len: the number of tracked heights, kept as a counter.
TreeLen(tr) == tr.num

\* ------------------------------------------------------------ pending store
\* The Pending Block Store: a function from the stored heights to bytes.
PutBlock(d, h, bytes) ==
    [k \in DOMAIN d \cup {h} |-> IF k = h THEN bytes ELSE d[k]]

\* A written batch of DeleteBlock operations.
DeleteBlocks(d, hs) == [k \in DOMAIN d \ hs |-> d[k]]

\* interval.GetBlock: the bytes stored under height h, or not found.
GetBlock(d, h) ==
    IF h \in DOMAIN d THEN [bytes |-> d[h], err |-> "nil"]
    ELSE [bytes |-> <<>>, err |-> "notFound"]

\* interval.Add that compares the height with the last accepted height
\* itself: the block right above it still asks for its parent.
Add_AboveAccepted(st, lastAccepted, blk) ==
    LET height == blk.Height
        tr == TreeAdd([tree |-> st.tree, num |-> st.num], height)
    IN  [db |-> PutBlock(st.db, height, Bytes(blk)),
         tree |-> tr.tree,
         num |-> tr.num,
         wantsParent |-> /\ Covering(tr.tree, height).LowerBound = height
                         /\ height > lastAccepted]

\* interval.Add: persist the block under its height, insert the height in
\* the tree, and report whether the block's parent is still wanted.
\* st is [db, tree, num].
Add(st, lastAccepted, blk) ==
    LET height == blk.Height
        tr == TreeAdd([tree |-> st.tree, num |-> st.num], height)
    IN  [db |-> PutBlock(st.db, height, Bytes(blk)),
         tree |-> tr.tree,
         num |-> tr.num,
         wantsParent |-> /\ Covering(tr.tree, height).LowerBound = height
                         /\ height > lastAccepted + 1]

\* interval.Remove: queue the deletion of the stored bytes in the batch and
\* drop the height from the tree.  st is [batch, tree, num].
Remove(st, height) ==
    LET tr == TreeRemove([tree |-> st.tree, num |-> st.num], height)
    IN  [batch |-> st.batch \cup {height}, tree |-> tr.tree, num |-> tr.num]

\* ------------------------------------------------------------ gap resolver
\* The loop of getMissingBlockIDs over intervals[k..]; faultAt is the index
\* of the interval at which the store read or the parser fails (0: never).
RECURSIVE missingLoop(_, _, _, _, _, _, _)
\* The loop that hands back the IDs collected so far when a read or a
\* parse fails.
missingLoop_Partial(intervals, k, missingBlocks, d, lastHeightToFetch, faultAt, faultKind) ==
    IF k > Len(intervals) THEN [ids |-> missingBlocks, err |-> "nil"]
    ELSE LET i == intervals[k]
             got == GetBlock(d, i.LowerBound)
         IN  IF i.LowerBound <= lastHeightToFetch
             THEN missingLoop(intervals, k + 1, missingBlocks, d,
                              lastHeightToFetch, faultAt, faultKind)
             ELSE IF got.err # "nil" THEN [ids |-> missingBlocks, err |-> got.err]
             ELSE IF faultAt = k THEN [ids |-> missingBlocks, err |-> faultKind]
             ELSE missingLoop(intervals, k + 1,
                              missingBlocks \cup {ParseBlock(got.bytes).Parent},
                              d, lastHeightToFetch, faultAt, faultKind)

\* The loop reading the block at the interval's upper bound.
missingLoop_UpperBound(intervals, k, missingBlocks, d, lastHeightToFetch, faultAt, faultKind) ==
    IF k > Len(intervals) THEN [ids |-> missingBlocks, err |-> "nil"]
    ELSE LET i == intervals[k]
             got == GetBlock(d, i.UpperBound)
         IN  IF i.LowerBound <= lastHeightToFetch
             THEN missingLoop(intervals, k + 1, missingBlocks, d,
                              lastHeightToFetch, faultAt, faultKind)
             ELSE IF got.err # "nil" THEN [ids |-> {}, err |-> got.err]
             ELSE IF faultAt = k THEN [ids |-> {}, err |-> faultKind]
             ELSE missingLoop(intervals, k + 1,
                              missingBlocks \cup {ParseBlock(got.bytes).Parent},
                              d, lastHeightToFetch, faultAt, faultKind)

missingLoop(intervals, k, missingBlocks, d, lastHeightToFetch, faultAt, faultKind) ==
    IF k > Len(intervals) THEN [ids |-> missingBlocks, err |-> "nil"]
    ELSE LET i == intervals[k]
             got == GetBlock(d, i.LowerBound)
         IN  IF i.LowerBound <= lastHeightToFetch
             THEN missingLoop(intervals, k + 1, missingBlocks, d,
                              lastHeightToFetch, faultAt, faultKind)
             ELSE IF got.err # "nil" THEN [ids |-> {}, err |-> got.err]
             ELSE IF faultAt = k THEN [ids |-> {}, err |-> faultKind]
             ELSE missingLoop(intervals, k + 1,
                              missingBlocks \cup {ParseBlock(got.bytes).Parent},
                              d, lastHeightToFetch, faultAt, faultKind)

\* getMissingBlockIDs that leaves out the lowest interval of the tree.
getMissingBlockIDs_SkipFirst(d, t, lastAccepted, faultAt, faultKind) ==
    missingLoop(Flatten(t), 2, {}, d, lastAccepted + 1, faultAt, faultKind)

\* getMissingBlockIDs with lastHeightToFetch = lastAcceptedHeight.
getMissingBlockIDs_NoPlusOne(d, t, lastAccepted, faultAt, faultKind) ==
    missingLoop(Flatten(t), 1, {}, d, lastAccepted, faultAt, faultKind)

getMissingBlockIDs(d, t, lastAccepted, faultAt, faultKind) ==
    missingLoop(Flatten(t), 1, {}, d, lastAccepted + 1, faultAt, faultKind)

\* ------------------------------------------------------------ chain linker
\* The loop of process.  st is [db, tree, num, missing, visited, wants];
\* visited is the sequence of heights of the blocks the walk has looked at
\* and wants the sequence of the results of their Add calls; failAt is the
\* number of the Add call that fails (0: none).
RECURSIVE processLoop(_, _, _, _, _)
\* The loop that removes from the missing set the ID of the first block of
\* the walk only.
processLoop_RemoveFirstOnly(st, blk, ancestors, lastAccepted, failAt) ==
    LET s1 == [st EXCEPT !.missing = IF st.visited = <<>> THEN @ \ {blk.ID} ELSE @,
                         !.visited = Append(@, blk.Height)]
        a == Add([db |-> s1.db, tree |-> s1.tree, num |-> s1.num], lastAccepted, blk)
        s2 == [s1 EXCEPT !.db = a.db, !.tree = a.tree, !.num = a.num,
                         !.wants = Append(@, a.wantsParent)]
    IN  IF failAt = Len(s1.visited)
        THEN [st |-> s1, id |-> Empty, found |-> FALSE, err |-> "add"]
        ELSE IF ~a.wantsParent
        THEN [st |-> s2, id |-> Empty, found |-> FALSE, err |-> "nil"]
        ELSE IF blk.Parent \notin DOMAIN ancestors
        THEN [st |-> s2, id |-> blk.Parent, found |-> TRUE, err |-> "nil"]
        ELSE processLoop(s2, ancestors[blk.Parent], ancestors, lastAccepted, failAt)

\* The loop that removes the block's ID from the missing set after
\* interval.Add has succeeded, not before the call.
processLoop_RemoveAfterAdd(st, blk, ancestors, lastAccepted, failAt) ==
    LET s1 == [st EXCEPT !.visited = Append(@, blk.Height)]
        a == Add([db |-> s1.db, tree |-> s1.tree, num |-> s1.num], lastAccepted, blk)
        s2 == [s1 EXCEPT !.missing = @ \ {blk.ID},
                         !.db = a.db, !.tree = a.tree, !.num = a.num,
                         !.wants = Append(@, a.wantsParent)]
    IN  IF failAt = Len(s1.visited)
        THEN [st |-> s1, id |-> Empty, found |-> FALSE, err |-> "add"]
        ELSE IF ~a.wantsParent
        THEN [st |-> s2, id |-> Empty, found |-> FALSE, err |-> "nil"]
        ELSE IF blk.Parent \notin DOMAIN ancestors
        THEN [st |-> s2, id |-> blk.Parent, found |-> TRUE, err |-> "nil"]
        ELSE processLoop(s2, ancestors[blk.Parent], ancestors, lastAccepted, failAt)

\* The loop that leaves out interval.Add for a block at or below the last
\* accepted height and ends the walk there.
processLoop_SkipAccepted(st, blk, ancestors, lastAccepted, failAt) ==
    LET s1 == [st EXCEPT !.missing = @ \ {blk.ID},
                         !.visited = Append(@, blk.Height)]
        a == Add([db |-> s1.db, tree |-> s1.tree, num |-> s1.num], lastAccepted, blk)
        s2 == [s1 EXCEPT !.db = a.db, !.tree = a.tree, !.num = a.num,
                         !.wants = Append(@, a.wantsParent)]
    IN  IF failAt = Len(s1.visited)
        THEN [st |-> s1, id |-> Empty, found |-> FALSE, err |-> "add"]
        ELSE IF blk.Height <= lastAccepted
        THEN [st |-> [s1 EXCEPT !.wants = Append(@, FALSE)],
              id |-> Empty, found |-> FALSE, err |-> "nil"]
        ELSE IF ~a.wantsParent
        THEN [st |-> s2, id |-> Empty, found |-> FALSE, err |-> "nil"]
        ELSE IF blk.Parent \notin DOMAIN ancestors
        THEN [st |-> s2, id |-> blk.Parent, found |-> TRUE, err |-> "nil"]
        ELSE processLoop(s2, ancestors[blk.Parent], ancestors, lastAccepted, failAt)

\* The loop that hands back the ID of the last block of the walk, not of
\* its parent, as the next block to fetch.
processLoop_ReturnSelf(st, blk, ancestors, lastAccepted, failAt) ==
    LET s1 == [st EXCEPT !.missing = @ \ {blk.ID},
                         !.visited = Append(@, blk.Height)]
        a == Add([db |-> s1.db, tree |-> s1.tree, num |-> s1.num], lastAccepted, blk)
        s2 == [s1 EXCEPT !.db = a.db, !.tree = a.tree, !.num = a.num,
                         !.wants = Append(@, a.wantsParent)]
    IN  IF failAt = Len(s1.visited)
        THEN [st |-> s1, id |-> Empty, found |-> FALSE, err |-> "add"]
        ELSE IF ~a.wantsParent
        THEN [st |-> s2, id |-> Empty, found |-> FALSE, err |-> "nil"]
        ELSE IF blk.Parent \notin DOMAIN ancestors
        THEN [st |-> s2, id |-> blk.ID, found |-> TRUE, err |-> "nil"]
        ELSE processLoop(s2, ancestors[blk.Parent], ancestors, lastAccepted, failAt)

\* The loop that looks the parent up in the ancestor map first and goes on
\* with it whatever Add returned.
processLoop_MapFirst(st, blk, ancestors, lastAccepted, failAt) ==
    LET s1 == [st EXCEPT !.missing = @ \ {blk.ID},
                         !.visited = Append(@, blk.Height)]
        a == Add([db |-> s1.db, tree |-> s1.tree, num |-> s1.num], lastAccepted, blk)
        s2 == [s1 EXCEPT !.db = a.db, !.tree = a.tree, !.num = a.num,
                         !.wants = Append(@, a.wantsParent)]
    IN  IF failAt = Len(s1.visited)
        THEN [st |-> s1, id |-> Empty, found |-> FALSE, err |-> "add"]
        ELSE IF blk.Parent \in DOMAIN ancestors
        THEN processLoop(s2, ancestors[blk.Parent], ancestors, lastAccepted, failAt)
        ELSE IF ~a.wantsParent
        THEN [st |-> s2, id |-> Empty, found |-> FALSE, err |-> "nil"]
        ELSE [st |-> s2, id |-> blk.Parent, found |-> TRUE, err |-> "nil"]

processLoop(st, blk, ancestors, lastAccepted, failAt) ==
    LET s1 == [st EXCEPT !.missing = @ \ {blk.ID},
                         !.visited = Append(@, blk.Height)]
        a == Add([db |-> s1.db, tree |-> s1.tree, num |-> s1.num], lastAccepted, blk)
        s2 == [s1 EXCEPT !.db = a.db, !.tree = a.tree, !.num = a.num,
                         !.wants = Append(@, a.wantsParent)]
    IN  IF failAt = Len(s1.visited)
        THEN [st |-> s1, id |-> Empty, found |-> FALSE, err |-> "add"]
        ELSE IF ~a.wantsParent
        THEN [st |-> s2, id |-> Empty, found |-> FALSE, err |-> "nil"]
        ELSE IF blk.Parent \notin DOMAIN ancestors
        THEN [st |-> s2, id |-> blk.Parent, found |-> TRUE, err |-> "nil"]
        ELSE processLoop(s2, ancestors[blk.Parent], ancestors, lastAccepted, failAt)

\* process whose lookup in the ancestor map never finds the parent.
process_NoAncestors(st, blk, ancestors, lastAccepted, failAt) ==
    processLoop(st, blk, [id \in {} |-> Block(0)], lastAccepted, failAt)

process(st, blk, ancestors, lastAccepted, failAt) ==
    processLoop(st, blk, ancestors, lastAccepted, failAt)

\* ------------------------------------------------------------ wrapped parser
\* No block: the nil a parser returns with an error.
Nil == [ID |-> Empty, Parent |-> Empty, Height |-> 0]

\* The errors the inner parser can return.
ParseErrors == {"parse", "codec"}

\* p.parser.ParseBlock: the inner parser, which fails with the error fault
\* or, with fault "none", returns the block the bytes encode.
parserParseBlock(bytes, fault) ==
    IF fault # "none" THEN [blk |-> Nil, err |-> fault]
    ELSE [blk |-> ParseBlock(bytes), err |-> "nil"]

\* The wrapped parser that hands back the inner block as it is.
parseAcceptorParseBlock_Bare(bytes, fault) ==
    LET r == parserParseBlock(bytes, fault)
    IN  IF r.err # "nil" THEN [blk |-> [Block |-> Nil, acceptor |-> FALSE], err |-> r.err]
        ELSE [blk |-> [Block |-> r.blk, acceptor |-> FALSE], err |-> "nil"]

\* parseAcceptor.ParseBlock: the inner parser's error with no block, or the
\* inner block embedded in a blockAcceptor.  A block value is
\* [Block, acceptor]: the embedded block, and whether the value is a
\* blockAcceptor.
parseAcceptorParseBlock(bytes, fault) ==
    LET r == parserParseBlock(bytes, fault)
    IN  IF r.err # "nil" THEN [blk |-> [Block |-> Nil, acceptor |-> FALSE], err |-> r.err]
        ELSE [blk |-> [Block |-> r.blk, acceptor |-> TRUE], err |-> "nil"]

\* The methods blockAcceptor takes over from the embedded snowman.Block.
blockAcceptorID(b) == b.Block.ID
blockAcceptorParent(b) == b.Block.Parent
blockAcceptorHeight(b) == b.Block.Height
blockAcceptorBytes(b) == Bytes(b.Block)

\* ------------------------------------------------------------ acceptor
\* The result a call records in the trace of calls.
Outcome(failed) == IF failed THEN "err" ELSE "nil"

\* blockAcceptor.Accept that goes on to the wrapped block's Accept when
\* the hook has failed, and returns what that Accept returns.
blockAcceptorAccept_IgnoreHook(o, blk, fault) ==
    LET counted == [o EXCEPT !.numAccepted = @ + 1,
                             !.events = Append(@, <<"Hook", blk.Height,
                                                    Outcome(fault = "hook")>>),
                             !.hooked = Append(@, <<blk.ID, Bytes(blk)>>)]
        inner == [counted EXCEPT !.events = Append(@, <<"Accept", blk.Height,
                                                        Outcome(fault = "accept")>>)]
    IN  IF fault = "accept"
        THEN [inner EXCEPT !.err = "accept", !.errID = blk.ID, !.errHeight = blk.Height]
        ELSE inner

\* blockAcceptor.Accept that calls the wrapped block's Accept first and the
\* hook after it.
blockAcceptorAccept_AcceptFirst(o, blk, fault) ==
    LET inner == [o EXCEPT !.numAccepted = @ + 1,
                           !.events = Append(@, <<"Accept", blk.Height,
                                                  Outcome(fault = "accept")>>)]
        hook == [inner EXCEPT !.events = Append(@, <<"Hook", blk.Height,
                                                     Outcome(fault = "hook")>>),
                              !.hooked = Append(@, <<blk.ID, Bytes(blk)>>)]
    IN  IF fault = "accept"
        THEN [inner EXCEPT !.err = "accept", !.errID = blk.ID, !.errHeight = blk.Height]
        ELSE IF fault = "hook"
        THEN [hook EXCEPT !.err = "hook", !.errID = blk.ID, !.errHeight = blk.Height]
        ELSE hook

\* blockAcceptor.Accept: count, then the block-accepted hook on the block's
\* ID and bytes, then the wrapped block's Accept.  o carries the
\* accepted-block counter, the trace of calls <<call, height, result>> and
\* the arguments the hook got; fault names the call that fails ("hook",
\* "accept") or "none".
blockAcceptorAccept(o, blk, fault) ==
    LET counted == [o EXCEPT !.numAccepted = @ + 1,
                             !.events = Append(@, <<"Hook", blk.Height,
                                                    Outcome(fault = "hook")>>),
                             !.hooked = Append(@, <<blk.ID, Bytes(blk)>>)]
        inner == [counted EXCEPT !.events = Append(@, <<"Accept", blk.Height,
                                                        Outcome(fault = "accept")>>)]
    IN  IF fault = "hook"
        THEN [counted EXCEPT !.err = "hook", !.errID = blk.ID, !.errHeight = blk.Height]
        ELSE IF fault = "accept"
        THEN [inner EXCEPT !.err = "accept", !.errID = blk.ID, !.errHeight = blk.Height]
        ELSE inner

\* ------------------------------------------------------------ executor
Min(S) == CHOOSE m \in S : \A k \in S : m <= k

\* interval.GetBlockIterator: a cursor over the store as it is now, in
\* ascending height order; the entries still to be yielded.
GetBlockIterator(d) == d

\* writeBatch that forgets to reset processedSinceBatchWrite.
writeBatch_NoReset(o, fails) ==
    IF o.processedSinceBatchWrite = 0 THEN o
    ELSE IF fails THEN [o EXCEPT !.err = "write"]
    ELSE [o EXCEPT !.db = DeleteBlocks(@, o.batch),
                   !.batch = {},
                   !.writes = Append(@, <<Len(o.yielded), Cardinality(o.batch)>>)]

\* writeBatch that writes the batch and never resets it (no batch.Reset()).
writeBatch_KeepBatch(o, fails) ==
    IF o.processedSinceBatchWrite = 0 THEN o
    ELSE IF fails
    THEN [o EXCEPT !.processedSinceBatchWrite = 0, !.err = "write"]
    ELSE [o EXCEPT !.processedSinceBatchWrite = 0,
                   !.db = DeleteBlocks(@, o.batch),
                   !.writes = Append(@, <<Len(o.yielded), Cardinality(o.batch)>>)]

\* The writeBatch closure of execute.
writeBatch(o, fails) ==
    IF o.processedSinceBatchWrite = 0 THEN o
    ELSE IF fails
    THEN [o EXCEPT !.processedSinceBatchWrite = 0, !.err = "write"]
    ELSE [o EXCEPT !.processedSinceBatchWrite = 0,
                   !.db = DeleteBlocks(@, o.batch),
                   !.batch = {},
                   !.writes = Append(@, <<Len(o.yielded), Cardinality(o.batch)>>)]

\* interval.GetBlockIterator hands out a new cursor; cs[k] is the number
\* of calls of Release on the k-th cursor of the pass.
acquireCursor(cs) == Append(cs, 0)

\* iterator.Release() on the cursor the variable iterator holds, which is
\* the one acquired last.
releaseCursor(cs) == [cs EXCEPT ![Len(cs)] = @ + 1]

\* Lines 192-194: the cursor is released and a new one is taken.
swapCursor(cs) == acquireCursor(releaseCursor(cs))

\* execute without the deferred release: the cursor held at the return
\* stays open.
deferredRelease_Forgotten(cs) == cs

\* Lines 151-153: the deferred closure reads the variable iterator when
\* execute returns and releases the cursor it holds then.
deferredRelease(cs) == releaseCursor(cs)

\* The periodic cursor release of the loop body: check the cursor, write
\* the batch, release the cursor and take a new one.
releaseIterator(o, fault) ==
    IF fault = "iterErr" THEN [o EXCEPT !.err = "iterErr"]
    ELSE LET w == writeBatch(o, fault = "write")
         IN  IF w.err # "continue" THEN w
             ELSE [w EXCEPT !.processedSinceIteratorRelease = 0,
                            !.iterator = GetBlockIterator(w.db),
                            !.releases = Append(@, Len(w.yielded))]

\* The skip test with a strict comparison: the block at the last accepted
\* height itself is executed again.
alreadyAccepted_Strict(height, lastAccepted) == height < lastAccepted

\* The skip test off by one: the block right above the last accepted
\* height is dropped too.
alreadyAccepted_OffByOne(height, lastAccepted) == height <= lastAccepted + 1

\* Lines 212-214: a stored block at or below the last accepted height is
\* dropped without being executed.
alreadyAccepted(height, lastAccepted) == height <= lastAccepted

\* Verify's error is dropped and Accept is called all the same.
verifyAndAccept_IgnoreVerify(o, blk, fault) ==
    blockAcceptorAccept([o EXCEPT !.events = Append(@, <<"Verify", blk.Height,
                                                         Outcome(fault = "verify")>>)],
                        blk, fault)

\* Verify and Accept where a failing Verify writes the batch before the
\* error is returned.
verifyAndAccept_FlushOnError(o, blk, fault) ==
    LET verified == [o EXCEPT !.events = Append(@, <<"Verify", blk.Height,
                                                     Outcome(fault = "verify")>>)]
    IN  IF fault = "verify"
        THEN [writeBatch(verified, FALSE) EXCEPT !.err = "verify", !.errID = blk.ID,
                                                 !.errHeight = blk.Height]
        ELSE blockAcceptorAccept(verified, blk, fault)

\* Lines 216-229: Verify, then Accept; either failing ends the pass with an
\* error that names the block's ID and height.
verifyAndAccept(o, blk, fault) ==
    LET verified == [o EXCEPT !.events = Append(@, <<"Verify", blk.Height,
                                                     Outcome(fault = "verify")>>)]
    IN  IF fault = "verify"
        THEN [verified EXCEPT !.err = "verify", !.errID = blk.ID,
                              !.errHeight = blk.Height]
        ELSE blockAcceptorAccept(verified, blk, fault)

\* The iteration that never counts the entry towards the cursor's release,
\* so that one cursor is held for the whole pass.
executeIteration_NoReleaseCount(o, lastAccepted, fault) ==
    LET key == Min(DOMAIN o.iterator)
        blkBytes == o.iterator[key]
        next == [o EXCEPT !.iterator = [k \in DOMAIN o.iterator \ {key} |-> o.iterator[k]],
                          !.yielded = Append(@, key)]
        blk == ParseBlock(blkBytes)
        height == blk.Height
        rm == Remove([batch |-> next.batch, tree |-> next.tree, num |-> next.num], height)
        removed == [next EXCEPT !.batch = rm.batch, !.tree = rm.tree, !.num = rm.num,
                                !.processedSinceBatchWrite = @ + 1]
        periodic == IF removed.processedSinceBatchWrite >= batchWritePeriod
                    THEN writeBatch(removed, fault = "write")
                    ELSE removed
        counted == periodic
        swapped == IF counted.processedSinceIteratorRelease >= iteratorReleasePeriod
                   THEN releaseIterator(counted, fault)
                   ELSE counted
    IN  IF fault = "parse" THEN [next EXCEPT !.err = "parse"]
        ELSE IF fault = "remove" THEN [next EXCEPT !.err = "remove"]
        ELSE IF periodic.err # "continue" THEN periodic
        ELSE IF swapped.err # "continue" THEN swapped
        ELSE IF alreadyAccepted(height, lastAccepted) THEN swapped
        ELSE verifyAndAccept(swapped, blk, fault)

\* The iteration that queues the deletion of the entry and leaves the
\* height in the tree.
executeIteration_KeepTree(o, lastAccepted, fault) ==
    LET key == Min(DOMAIN o.iterator)
        blkBytes == o.iterator[key]
        next == [o EXCEPT !.iterator = [k \in DOMAIN o.iterator \ {key} |-> o.iterator[k]],
                          !.yielded = Append(@, key)]
        blk == ParseBlock(blkBytes)
        height == blk.Height
        rm == Remove([batch |-> next.batch, tree |-> next.tree, num |-> next.num], height)
        removed == [next EXCEPT !.batch = rm.batch,
                                !.processedSinceBatchWrite = @ + 1]
        periodic == IF removed.processedSinceBatchWrite >= batchWritePeriod
                    THEN writeBatch(removed, fault = "write")
                    ELSE removed
        counted == [periodic EXCEPT !.processedSinceIteratorRelease = @ + 1]
        swapped == IF counted.processedSinceIteratorRelease >= iteratorReleasePeriod
                   THEN releaseIterator(counted, fault)
                   ELSE counted
    IN  IF fault = "parse" THEN [next EXCEPT !.err = "parse"]
        ELSE IF fault = "remove" THEN [next EXCEPT !.err = "remove"]
        ELSE IF periodic.err # "continue" THEN periodic
        ELSE IF swapped.err # "continue" THEN swapped
        ELSE IF alreadyAccepted(height, lastAccepted) THEN swapped
        ELSE verifyAndAccept(swapped, blk, fault)

\* One iteration of the loop of execute, on the next entry of the cursor.
\* o is the record of the store, the tree and the locals of execute; fault
\* names the call that fails in this iteration, or "none".  The result's
\* err is "continue" when the loop goes on.
executeIteration(o, lastAccepted, fault) ==
    LET key == Min(DOMAIN o.iterator)
        blkBytes == o.iterator[key]
        next == [o EXCEPT !.iterator = [k \in DOMAIN o.iterator \ {key} |-> o.iterator[k]],
                          !.yielded = Append(@, key)]
        blk == ParseBlock(blkBytes)
        height == blk.Height
        rm == Remove([batch |-> next.batch, tree |-> next.tree, num |-> next.num], height)
        removed == [next EXCEPT !.batch = rm.batch, !.tree = rm.tree, !.num = rm.num,
                                !.processedSinceBatchWrite = @ + 1]
        periodic == IF removed.processedSinceBatchWrite >= batchWritePeriod
                    THEN writeBatch(removed, fault = "write")
                    ELSE removed
        counted == [periodic EXCEPT !.processedSinceIteratorRelease = @ + 1]
        swapped == IF counted.processedSinceIteratorRelease >= iteratorReleasePeriod
                   THEN releaseIterator(counted, fault)
                   ELSE counted
    IN  IF fault = "parse" THEN [next EXCEPT !.err = "parse"]
        ELSE IF fault = "remove" THEN [next EXCEPT !.err = "remove"]
        ELSE IF periodic.err # "continue" THEN periodic
        ELSE IF swapped.err # "continue" THEN swapped
        ELSE IF alreadyAccepted(height, lastAccepted) THEN swapped
        ELSE verifyAndAccept(swapped, blk, fault)

\* Whether the named fault can happen in the iteration on the next entry.
FaultPossible(o, lastAccepted, fault) ==
    LET height == ParseBlock(o.iterator[Min(DOMAIN o.iterator)]).Height
        periodic == o.processedSinceBatchWrite + 1 >= batchWritePeriod
        release == o.processedSinceIteratorRelease + 1 >= iteratorReleasePeriod
    IN  CASE fault \in {"none", "parse", "remove"} -> TRUE
          [] fault = "write" -> periodic \/ release
          [] fault = "iterErr" -> release
          [] fault \in {"verify", "hook", "accept"} -> height > lastAccepted

\* a - b in unsigned 64-bit arithmetic, for a and b below 2^64: the value
\* is low + wraps * 2^64, with wraps = 1 when the subtraction wraps around.
Uint64Sub(a, b) == [wraps |-> IF a < b THEN 1 ELSE 0, low |-> a - b]

\* The progress computed as tree.Len() - totalNumberToProcess.
numProcessed_Swapped(total, len) == Uint64Sub(len, total)

\* Lines 200 and 239: numProcessed = totalNumberToProcess - tree.Len().
numProcessed(total, len) == Uint64Sub(total, len)

\* The end of execute that returns nil whatever the context's error is.
executeReturn_DropCtxErr(o, fault, cancelled) ==
    LET w == writeBatch(o, fault = "write")
    IN  IF w.err # "continue" THEN w
        ELSE IF fault = "iterErr" THEN [w EXCEPT !.err = "iterErr"]
        ELSE [w EXCEPT !.err = "nil"]

\* The end of execute that returns at once when the context is cancelled,
\* without the final write.
executeReturn_NoFlushOnCancel(o, fault, cancelled) ==
    LET w == writeBatch(o, fault = "write")
    IN  IF cancelled THEN [o EXCEPT !.err = "cancelled"]
        ELSE IF w.err # "continue" THEN w
        ELSE IF fault = "iterErr" THEN [w EXCEPT !.err = "iterErr"]
        ELSE [w EXCEPT !.err = "nil"]

\* The end of execute without the final write of the batch.
executeReturn_NoFinalWrite(o, fault, cancelled) ==
    IF fault = "iterErr" THEN [o EXCEPT !.err = "iterErr"]
    ELSE [o EXCEPT !.err = IF cancelled THEN "cancelled" ELSE "nil"]

\* The end of execute that checks the cursor before the final write: a
\* cursor error is returned with the queued deletions unwritten.
executeReturn_CursorFirst(o, fault, cancelled) ==
    LET w == writeBatch(o, fault = "write")
    IN  IF fault = "iterErr" THEN [o EXCEPT !.err = "iterErr"]
        ELSE IF w.err # "continue" THEN w
        ELSE [w EXCEPT !.err = IF cancelled THEN "cancelled" ELSE "nil"]

\* The end of execute, after the loop: the final write of the batch, the
\* check of the cursor, and the context's error as the result.
executeReturn(o, fault, cancelled) ==
    LET w == writeBatch(o, fault = "write")
    IN  IF w.err # "continue" THEN w
        ELSE IF fault = "iterErr" THEN [w EXCEPT !.err = "iterErr"]
        ELSE [w EXCEPT !.err = IF cancelled THEN "cancelled" ELSE "nil"]

\* ------------------------------------------------------------ state
VARIABLES
    lastAcceptedHeight,             \* the ledger's last accepted height
    tree,                           \* interval.Tree: the set of intervals
    numKnownHeights,                \* interval.Tree: the counter behind Len()
    db,                             \* the Pending Block Store
    missingBlockIDs,                \* the caller's set of missing block IDs
    numAccepted,                    \* metrics.numAccepted
    ret,                            \* what the last call returned, until taken
    pc,                             \* "idle", "done", "loop" (in execute), "returned"
    ctxErr,                         \* execute: ctx.Err() # nil
    batch,                          \* execute: heights whose deletion is queued
    processedSinceBatchWrite,       \* execute
    processedSinceIteratorRelease,  \* execute
    iterator,                       \* execute: entries the cursor still yields
    totalNumberToProcess,           \* execute
    passes,                         \* history: execute passes started, up to MaxPasses
    R,                              \* history: heights inserted and not removed
    removedAny,                     \* history: some height was removed
    events,                         \* history: Verify/Hook/Accept calls of the pass
    hooked,                         \* history: <<ID, bytes>> the hook got, per call
    yielded,                        \* history: heights the cursors yielded in the pass
    writes,                         \* history: <<processed, size>> of each batch write
    releases,                       \* history: processed count at each cursor release
    startDB,                        \* history: heights stored when the pass began
    startTree,                      \* history: heights tracked when the pass began
    cancelledAccepted,              \* history: heights accepted by the cancelled
                                    \* passes since the last call of process
    interleaved,                    \* history: process was called inside a pass
    parsed,                         \* what the last call of the wrapped parser
                                    \* returned, with what the inner parser gave
    cursors                         \* execute: how often each storage cursor the
                                    \* pass acquired was released, in order

treeVars == <<tree, numKnownHeights, db, missingBlockIDs>>
execVars == <<ctxErr, batch, processedSinceBatchWrite, processedSinceIteratorRelease,
              iterator, totalNumberToProcess>>
histVars == <<events, hooked, yielded, writes, releases, startDB, startTree,
              interleaved, parsed, cursors>>
vars == <<lastAcceptedHeight, treeVars, numAccepted, ret, pc, execVars, passes, R,
          removedAny, histVars, cancelledAccepted>>

EmptyStore == [k \in {} |-> <<>>]

NoReturn == [op |-> "none", id |-> Empty, found |-> FALSE, err |-> "nil",
             ids |-> {}, height |-> 0, n |-> 0, linked |-> 0,
             tracked |-> FALSE, before |-> 0, wants |-> <<>>, known |-> FALSE,
             missingBefore |-> {}]

\* The wrapped parser has not been called.
NoParse == [op |-> "none", bytes |-> <<>>,
            inner |-> [blk |-> Nil, err |-> "nil"],
            out |-> [blk |-> [Block |-> Nil, acceptor |-> FALSE], err |-> "nil"]]

\* The store that holds the chain's blocks of the heights hs.
StoreOf(hs) == [h \in hs |-> Bytes(Block(h))]

\* The tree after inserting the heights hs in ascending order.
RECURSIVE TreeOfSet(_)
TreeOfSet(hs) ==
    IF hs = {} THEN [tree |-> {}, num |-> 0]
    ELSE LET top == CHOOSE h \in hs : \A k \in hs : k <= h
         IN  TreeAdd(TreeOfSet(hs \ {top}), top)

InitRest ==
    /\ numAccepted = 0
    /\ ret = NoReturn
    /\ pc = "idle"
    /\ ctxErr = FALSE
    /\ batch = {}
    /\ processedSinceBatchWrite = 0
    /\ processedSinceIteratorRelease = 0
    /\ iterator = EmptyStore
    /\ totalNumberToProcess = 0
    /\ passes = 0
    /\ removedAny = FALSE
    /\ events = <<>>
    /\ hooked = <<>>
    /\ yielded = <<>>
    /\ writes = <<>>
    /\ releases = <<>>
    /\ startDB = {}
    /\ startTree = {}
    /\ cancelledAccepted = {}
    /\ interleaved = FALSE
    /\ parsed = NoParse
    /\ cursors = <<>>

InitCommon ==
    /\ missingBlockIDs = {}
    /\ InitRest

\* A fresh bootstrap attempt: nothing pending.
Init ==
    /\ lastAcceptedHeight \in 0 .. MaxLastAccepted
    /\ tree = {}
    /\ numKnownHeights = 0
    /\ db = EmptyStore
    /\ R = {}
    /\ InitCommon

\* ------------------------------------------------------------ actions
\* The ancestor maps of one network response: consecutive blocks lo..hi of
\* the chain keyed by ID, or no ancestor at all.
AncestorMap(lo, hi) == [id \in {IDOf(h) : h \in lo .. hi} |-> Block(id - IDOf(0))]

AncestorMaps == {AncestorMap(lo, hi) : lo \in 1 .. MaxHeight, hi \in 0 .. MaxHeight}

\* The heights of a sequence of heights.
Range(q) == {q[k] : k \in 1 .. Len(q)}

\* The lowest height the ancestor map links the block of height h to: the
\* blocks of the heights Linked(h, ancestors) .. h - 1 are all in the map,
\* found one after the other by the parent ID of the block above.
Linked(h, ancestors) ==
    CHOOSE t \in 1 .. h :
        /\ \A u \in t .. (h - 1) : IDOf(u) \in DOMAIN ancestors
        /\ t > 1 => IDOf(t - 1) \notin DOMAIN ancestors

\* The parent ID of the block a walk looked at last.
LastParent(visited) == Block(visited[Len(visited)]).Parent

\* A call of process(db, tree, blk, ancestors, missingBlockIDs, lastAcceptedHeight).
\* ret keeps the call's result with the height of its block, the depth of
\* its ancestor map, what Add returned for each block of the walk,
\* whether the map has the parent of the last block of the walk, and the
\* missing set the call was given.
Process(blk, ancestors, failAt) ==
    /\ pc = "idle"
    /\ LET r == process([db |-> db, tree |-> tree, num |-> numKnownHeights,
                         missing |-> missingBlockIDs, visited |-> <<>>,
                         wants |-> <<>>],
                        blk, ancestors, lastAcceptedHeight, failAt)
       IN  /\ failAt > 0 => r.err = "add"
           /\ db' = r.st.db
           /\ tree' = r.st.tree
           /\ numKnownHeights' = r.st.num
           /\ missingBlockIDs' = r.st.missing
           /\ R' = R \cup (IF r.err = "add"
                           THEN Range(SubSeq(r.st.visited, 1, Len(r.st.visited) - 1))
                           ELSE Range(r.st.visited))
           /\ ret' = [NoReturn EXCEPT !.op = "process", !.id = r.id, !.found = r.found,
                                      !.err = r.err, !.n = Len(r.st.visited),
                                      !.height = blk.Height,
                                      !.linked = Linked(blk.Height, ancestors),
                                      !.wants = r.st.wants,
                                      !.known = LastParent(r.st.visited)
                                                    \in DOMAIN ancestors,
                                      !.missingBefore = missingBlockIDs]
    /\ pc' = "done"
    /\ cancelledAccepted' = {}
    /\ UNCHANGED <<lastAcceptedHeight, numAccepted, execVars, passes, removedAny,
                   histVars>>

\* A call of a resolver that takes out of the store the block it reads at
\* the lower bound of each interval above lastAcceptedHeight + 1.
GetMissing_Consuming(faultAt, faultKind) ==
    /\ pc = "idle"
    /\ LET r == getMissingBlockIDs(db, tree, lastAcceptedHeight, faultAt, faultKind)
       IN  /\ faultAt > 0 => r.err = faultKind
           /\ missingBlockIDs' = IF r.err = "nil" THEN r.ids ELSE missingBlockIDs
           /\ db' = DeleteBlocks(db, {i.LowerBound : i \in
                                         {j \in tree : j.LowerBound > lastAcceptedHeight + 1}})
           /\ ret' = [NoReturn EXCEPT !.op = "getMissingBlockIDs", !.ids = r.ids,
                                      !.err = r.err, !.n = faultAt]
    /\ pc' = "done"
    /\ UNCHANGED <<lastAcceptedHeight, tree, numKnownHeights, numAccepted,
                   execVars, passes, R, removedAny, histVars, cancelledAccepted>>

\* A call of getMissingBlockIDs(ctx, db, parser, tree, lastAcceptedHeight);
\* the caller keeps the set it returns.  ret keeps, with the result, the
\* index of the interval at which the read or the parse failed.
GetMissing(faultAt, faultKind) ==
    /\ pc = "idle"
    /\ LET r == getMissingBlockIDs(db, tree, lastAcceptedHeight, faultAt, faultKind)
       IN  /\ faultAt > 0 => r.err = faultKind
           /\ missingBlockIDs' = IF r.err = "nil" THEN r.ids ELSE missingBlockIDs
           /\ ret' = [NoReturn EXCEPT !.op = "getMissingBlockIDs", !.ids = r.ids,
                                      !.err = r.err, !.n = faultAt]
    /\ pc' = "done"
    /\ UNCHANGED <<lastAcceptedHeight, tree, numKnownHeights, db, numAccepted,
                   execVars, passes, R, removedAny, histVars, cancelledAccepted>>

\* The caller takes the result of process or of getMissingBlockIDs.
TakeResult ==
    /\ pc = "done"
    /\ pc' = "idle"
    /\ ret' = NoReturn
    /\ UNCHANGED <<lastAcceptedHeight, treeVars, numAccepted, execVars, passes, R,
                   removedAny, histVars, cancelledAccepted>>

\* The record executeIteration works on.
Locals ==
    [db |-> db, tree |-> tree, num |-> numKnownHeights, batch |-> batch,
     processedSinceBatchWrite |-> processedSinceBatchWrite,
     processedSinceIteratorRelease |-> processedSinceIteratorRelease,
     iterator |-> iterator, numAccepted |-> numAccepted,
     events |-> events, hooked |-> hooked, yielded |-> yielded, writes |-> writes, releases |-> releases,
     err |-> "continue", errID |-> Empty, errHeight |-> 0]

\* The effect of a step of execute that ends in the record o.
Continue(o) ==
    /\ db' = o.db
    /\ tree' = o.tree
    /\ numKnownHeights' = o.num
    /\ batch' = o.batch
    /\ processedSinceBatchWrite' = o.processedSinceBatchWrite
    /\ processedSinceIteratorRelease' = o.processedSinceIteratorRelease
    /\ iterator' = o.iterator
    /\ numAccepted' = o.numAccepted
    /\ events' = o.events
    /\ hooked' = o.hooked
    /\ yielded' = o.yielded
    /\ writes' = o.writes
    /\ releases' = o.releases
    /\ R' = R \ (Covered(tree) \ Covered(o.tree))
    /\ removedAny' = (removedAny \/ Covered(o.tree) # Covered(tree))
    /\ cursors' = LET held == IF Len(o.releases) > Len(releases)
                               THEN swapCursor(cursors)
                               ELSE cursors
                   IN  IF o.err = "continue" THEN held ELSE deferredRelease(held)
    /\ pc' = IF o.err = "continue" THEN "loop" ELSE "returned"
    /\ ret' = IF o.err = "continue" THEN ret
              ELSE [NoReturn EXCEPT !.op = "execute", !.err = o.err, !.id = o.errID,
                                    !.height = o.errHeight]

\* execute is called: lines 128-157.  bounded: the pass counts towards
\* MaxPasses.
ExecStart(bounded) ==
    /\ pc = "idle"
    /\ bounded => passes < MaxPasses
    /\ pc' = "loop"
    /\ passes' = IF passes < MaxPasses THEN passes + 1 ELSE passes
    /\ ctxErr' = FALSE
    /\ batch' = {}
    /\ processedSinceBatchWrite' = 0
    /\ processedSinceIteratorRelease' = 0
    /\ iterator' = GetBlockIterator(db)
    /\ totalNumberToProcess' = TreeLen([tree |-> tree, num |-> numKnownHeights])
    /\ events' = <<>>
    /\ hooked' = <<>>
    /\ yielded' = <<>>
    /\ writes' = <<>>
    /\ releases' = <<>>
    /\ startDB' = DOMAIN db
    /\ startTree' = Covered(tree)
    /\ cursors' = acquireCursor(<<>>)
    /\ UNCHANGED <<lastAcceptedHeight, treeVars, numAccepted, ret, R, removedAny,
                   cancelledAccepted, interleaved, parsed>>

\* One iteration of the loop of execute: lines 159-230.
ExecStep(fault) ==
    /\ pc = "loop"
    /\ ~ctxErr
    /\ DOMAIN iterator # {}
    /\ FaultPossible(Locals, lastAcceptedHeight, fault)
    /\ Continue(executeIteration(Locals, lastAcceptedHeight, fault))
    /\ UNCHANGED <<lastAcceptedHeight, missingBlockIDs, ctxErr, totalNumberToProcess,
                   passes, startDB, startTree, cancelledAccepted, interleaved, parsed>>

\* The loop ends (cancellation seen, cursor exhausted or cursor failed) and
\* execute returns: lines 231-248.  late: the context is cancelled after
\* the loop's last test and before the result is read.  The cursor can be
\* in error whether or not the context is cancelled.
ExecFinish(fault, late) ==
    /\ pc = "loop"
    /\ \/ fault = "none" /\ (ctxErr \/ DOMAIN iterator = {})
       \/ fault = "write" /\ (ctxErr \/ DOMAIN iterator = {})
                          /\ processedSinceBatchWrite # 0
       \/ fault = "iterErr"
    /\ late => ~ctxErr
    /\ LET o == executeReturn(Locals, fault, ctxErr \/ late)
       IN  /\ Continue(o)
           /\ ctxErr' = (ctxErr \/ late)
    /\ UNCHANGED <<lastAcceptedHeight, missingBlockIDs, totalNumberToProcess,
                   passes, startDB, startTree, cancelledAccepted, interleaved, parsed>>

\* The context of the running pass is cancelled.
Cancel ==
    /\ pc = "loop"
    /\ ~ctxErr
    /\ ctxErr' = TRUE
    /\ UNCHANGED <<lastAcceptedHeight, treeVars, numAccepted, ret, pc, batch,
                   processedSinceBatchWrite, processedSinceIteratorRelease, iterator,
                   totalNumberToProcess, passes, R, removedAny, histVars,
                   cancelledAccepted>>

\* The heights whose wrapped block's Accept the pass called with success.
AcceptedIn(ev) ==
    {ev[k][2] : k \in {j \in 1 .. Len(ev) : ev[j][1] = "Accept" /\ ev[j][3] = "nil"}}

\* The caller takes the result of execute; the locals of the call are gone.
ExecExit ==
    /\ pc = "returned"
    /\ pc' = "idle"
    /\ ctxErr' = FALSE
    /\ batch' = {}
    /\ processedSinceBatchWrite' = 0
    /\ processedSinceIteratorRelease' = 0
    /\ iterator' = EmptyStore
    /\ totalNumberToProcess' = 0
    /\ events' = <<>>
    /\ hooked' = <<>>
    /\ yielded' = <<>>
    /\ writes' = <<>>
    /\ releases' = <<>>
    /\ startDB' = {}
    /\ startTree' = {}
    /\ cursors' = <<>>
    /\ cancelledAccepted' = IF ret.err = "cancelled"
                            THEN cancelledAccepted \cup AcceptedIn(events)
                            ELSE cancelledAccepted
    /\ ret' = NoReturn
    /\ UNCHANGED <<lastAcceptedHeight, treeVars, numAccepted, passes, R, removedAny,
                   interleaved, parsed>>

StepFaults == {"none", "parse", "remove", "write", "iterErr", "verify", "hook", "accept"}

Next ==
    \/ \E h \in 1 .. MaxHeight, anc \in AncestorMaps, failAt \in 0 .. MaxFailAt :
          Process(Block(h), anc, failAt)
    \/ \E faultAt \in 0 .. MaxFailAt, kind \in {"none", "get", "parse"} :
          /\ (faultAt = 0) = (kind = "none")
          /\ GetMissing(faultAt, kind)
    \/ TakeResult
    \/ ExecStart(TRUE)
    \/ \E fault \in StepFaults : ExecStep(fault)
    \/ \E fault \in {"none", "write", "iterErr"}, late \in BOOLEAN : ExecFinish(fault, late)
    \/ Cancel
    \/ ExecExit

Spec == Init /\ [][Next]_vars

\* ------------------------------------------------------------ serialized use
\* Calls of process and passes of execute, one at a time, where no pass of
\* execute fails: a pass runs to the end of the cursor or is cancelled.
NextSerial ==
    \/ \E h \in 1 .. MaxHeight, anc \in AncestorMaps, failAt \in 0 .. MaxFailAt :
          Process(Block(h), anc, failAt)
    \/ TakeResult
    \/ ExecStart(TRUE)
    \/ ExecStep("none")
    \/ \E late \in BOOLEAN : ExecFinish("none", late)
    \/ Cancel
    \/ ExecExit

SpecSerial == Init /\ [][NextSerial]_vars

\* ------------------------------------------------------------ unserialized use
\* A call of process that runs while a pass of execute is in its loop,
\* between two iterations: the caller did not serialize access.  The
\* cursor of the pass keeps the view it was taken with.
ProcessInside(blk, ancestors) ==
    /\ pc = "loop"
    /\ LET r == process([db |-> db, tree |-> tree, num |-> numKnownHeights,
                         missing |-> missingBlockIDs, visited |-> <<>>,
                         wants |-> <<>>],
                        blk, ancestors, lastAcceptedHeight, 0)
       IN  /\ db' = r.st.db
           /\ tree' = r.st.tree
           /\ numKnownHeights' = r.st.num
           /\ missingBlockIDs' = r.st.missing
           /\ R' = R \cup Range(r.st.visited)
    /\ interleaved' = TRUE
    /\ UNCHANGED <<lastAcceptedHeight, numAccepted, ret, pc, execVars, passes,
                   removedAny, events, hooked, yielded, writes, releases, startDB,
                   startTree, cancelledAccepted, parsed, cursors>>

\* Serialized use, and calls of process inside a pass as well.
NextInterleaved ==
    \/ NextSerial
    \/ \E h \in 1 .. MaxHeight, anc \in AncestorMaps : ProcessInside(Block(h), anc)

SpecInterleaved == Init /\ [][NextInterleaved]_vars

\* ------------------------------------------------------------ chain linker alone
\* Calls of process on a missing set that holds any IDs of the chain: the
\* set is the caller's, and process is handed it as it is.
InitLinker ==
    /\ lastAcceptedHeight \in 0 .. MaxLastAccepted
    /\ tree = {}
    /\ numKnownHeights = 0
    /\ db = EmptyStore
    /\ R = {}
    /\ missingBlockIDs \in SUBSET {IDOf(h) : h \in 0 .. MaxHeight}
    /\ InitRest

NextLinker ==
    \/ \E h \in 1 .. MaxHeight, anc \in AncestorMaps, failAt \in 0 .. MaxFailAt :
          Process(Block(h), anc, failAt)
    \/ TakeResult

SpecLinker == InitLinker /\ [][NextLinker]_vars

\* ------------------------------------------------------------ gap resolver alone
\* getMissingBlockIDs applied to every tree over the heights 1..MaxGapHeight
\* and every last accepted height.
InitGap ==
    /\ lastAcceptedHeight \in 0 .. MaxGapHeight
    /\ \E hs \in SUBSET (1 .. MaxGapHeight) :
          /\ tree = TreeOfSet(hs).tree
          /\ numKnownHeights = TreeOfSet(hs).num
          /\ db = StoreOf(hs)
          /\ R = hs
    /\ InitCommon

NextGap ==
    \/ \E faultAt \in 0 .. MaxFailAt, kind \in {"none", "get", "parse"} :
          /\ (faultAt = 0) = (kind = "none")
          /\ GetMissing(faultAt, kind)
    \/ TakeResult

SpecGap == InitGap /\ [][NextGap]_vars

\* ------------------------------------------------------------ gap closing
\* The caller takes the result of a call; the ID process reports as the
\* next block needed joins the missing set, to be fetched.
RequestNext ==
    /\ pc = "done"
    /\ pc' = "idle"
    /\ missingBlockIDs' = IF ret.op = "process" /\ ret.found
                          THEN missingBlockIDs \cup {ret.id}
                          ELSE missingBlockIDs
    /\ ret' = NoReturn
    /\ UNCHANGED <<lastAcceptedHeight, tree, numKnownHeights, db, numAccepted,
                   execVars, passes, R, removedAny, histVars, cancelledAccepted>>

\* Any tree over the heights 1..MaxFetchHeight with its store, any last
\* accepted height, and nothing requested yet.
InitFetch ==
    /\ lastAcceptedHeight \in 0 .. MaxFetchHeight
    /\ \E hs \in SUBSET (1 .. MaxFetchHeight) :
          /\ tree = TreeOfSet(hs).tree
          /\ numKnownHeights = TreeOfSet(hs).num
          /\ db = StoreOf(hs)
          /\ R = hs
    /\ InitCommon

\* A block whose ID is in the missing set is delivered, with any run of
\* blocks of the chain as its ancestor map, and handed to process.
Deliver ==
    \E h \in 1 .. MaxFetchHeight, lo \in 1 .. MaxFetchHeight, hi \in 0 .. MaxFetchHeight :
        /\ IDOf(h) \in missingBlockIDs
        /\ Process(Block(h), AncestorMap(lo, hi), 0)

\* With nothing left to fetch the caller asks the gap resolver again.
Resolve == missingBlockIDs = {} /\ GetMissing(0, "none")

NextFetch == Resolve \/ Deliver \/ RequestNext

\* Every requested block is delivered in the end, and every result taken.
SpecFetch ==
    /\ InitFetch
    /\ [][NextFetch]_vars
    /\ WF_vars(Resolve) /\ WF_vars(Deliver) /\ WF_vars(RequestNext)

\* ------------------------------------------------------------ executor alone
\* The lengths of the runs the medium executor model drains: one block, and
\* the lengths around the batch write period.
RunLengths == {1} \cup ((batchWritePeriod - 1) .. MaxRun)

\* The pending store and the tree hold the run lo..H+K, with lo <= H+1
\* (entries at or below the last accepted height H are stale leftovers);
\* the tree is the single interval that inserting lo..H+K leaves.
InitRunOf(lengths) ==
    /\ lastAcceptedHeight \in 0 .. MaxLastAccepted
    /\ \E lo \in 1 .. lastAcceptedHeight + 1, K \in lengths :
          LET hi == lastAcceptedHeight + K
          IN  /\ tree = {Interval(lo, hi)}
              /\ numKnownHeights = hi - lo + 1
              /\ db = StoreOf(lo .. hi)
              /\ R = lo .. hi
    /\ InitCommon

InitRun == InitRunOf(RunLengths)

\* Passes of execute that may be cancelled, re-run after each return.
NextRun ==
    \/ ExecStart(FALSE)
    \/ ExecStep("none")
    \/ \E late \in BOOLEAN : ExecFinish("none", late)
    \/ Cancel
    \/ ExecExit

SpecRun == InitRun /\ [][NextRun]_vars

\* One pass of execute over such a run in which any call may fail: the
\* parse, the removal, a batch write, Verify, the hook, the wrapped Accept,
\* the cursor; the pass may be cancelled as well.
NextFail ==
    \/ passes = 0 /\ ExecStart(TRUE)
    \/ \E fault \in StepFaults : ExecStep(fault)
    \/ \E fault \in {"none", "write", "iterErr"}, late \in BOOLEAN : ExecFinish(fault, late)
    \/ Cancel
    \/ ExecExit

SpecFail == InitRun /\ [][NextFail]_vars

\* Such a pass over one block, and over a run long enough for the cursor
\* to be released and taken again with entries left after that.
InitCursor == InitRunOf({1, MaxBigRun})

SpecCursor == InitCursor /\ [][NextFail]_vars

\* Runs long enough for the cursor to be released and taken again.
InitBig == InitRunOf(RunLengths \cup {MaxBigRun - 1, MaxBigRun})

\* One pass of execute that is neither cancelled nor fails.
NextBig ==
    \/ ExecStart(TRUE)
    \/ ExecStep("none")
    \/ ExecFinish("none", FALSE)
    \/ ExecExit

SpecBig == InitBig /\ [][NextBig]_vars

\* ------------------------------------------------------------ wrapped parser alone
\* A call of parseAcceptor.ParseBlock on the bytes of the chain's block of
\* height h, where the inner parser fails with fault or not at all.
ParseWrapped(h, fault) ==
    /\ pc = "idle"
    /\ parsed' = [op |-> "ParseBlock", bytes |-> Bytes(Block(h)),
                  inner |-> parserParseBlock(Bytes(Block(h)), fault),
                  out |-> parseAcceptorParseBlock(Bytes(Block(h)), fault)]
    /\ ret' = NoReturn
    /\ UNCHANGED <<lastAcceptedHeight, treeVars, numAccepted, pc, execVars, passes, R,
                   removedAny, events, hooked, yielded, writes, releases, startDB,
                   startTree, interleaved, cursors, cancelledAccepted>>

\* Verify is called on the block the wrapped parser returned: the embedded
\* block's Verify, which fails under the fault "verify".
VerifyParsed(fault) ==
    /\ pc = "idle"
    /\ parsed.op = "ParseBlock" /\ parsed.out.err = "nil"
    /\ Len(events) + 1 <= MaxParsedCalls
    /\ events' = Append(events, <<"Verify", blockAcceptorHeight(parsed.out.blk),
                                  Outcome(fault = "verify")>>)
    /\ ret' = [NoReturn EXCEPT !.op = "Verify",
                               !.err = IF fault = "verify" THEN "verify" ELSE "nil",
                               !.height = blockAcceptorHeight(parsed.out.blk)]
    /\ UNCHANGED <<lastAcceptedHeight, treeVars, numAccepted, pc, execVars, passes, R,
                   removedAny, hooked, yielded, writes, releases, startDB, startTree,
                   interleaved, parsed, cursors, cancelledAccepted>>

\* Accept is called on the block the wrapped parser returned: the method
\* of blockAcceptor when the value is one, the embedded block's own Accept
\* otherwise.
AcceptParsed(fault) ==
    /\ pc = "idle"
    /\ parsed.op = "ParseBlock" /\ parsed.out.err = "nil"
    /\ Len(events) + 2 <= MaxParsedCalls
    /\ LET b == parsed.out.blk
           o == IF b.acceptor
                THEN blockAcceptorAccept(Locals, b.Block, fault)
                ELSE [Locals EXCEPT !.events = Append(@, <<"Accept", b.Block.Height,
                                                           Outcome(fault = "accept")>>),
                                    !.err = IF fault = "accept" THEN "accept" ELSE @]
       IN  /\ numAccepted' = o.numAccepted
           /\ events' = o.events
           /\ hooked' = o.hooked
           /\ ret' = [NoReturn EXCEPT !.op = "Accept",
                                      !.err = IF o.err = "continue" THEN "nil" ELSE o.err,
                                      !.height = b.Block.Height]
    /\ UNCHANGED <<lastAcceptedHeight, treeVars, pc, execVars, passes, R, removedAny,
                   yielded, writes, releases, startDB, startTree, interleaved, parsed,
                   cursors, cancelledAccepted>>

NextParser ==
    \/ \E h \in 1 .. MaxHeight, fault \in {"none"} \cup ParseErrors : ParseWrapped(h, fault)
    \/ \E fault \in {"none", "verify"} : VerifyParsed(fault)
    \/ \E fault \in {"none", "hook", "accept"} : AcceptParsed(fault)

SpecParser == Init /\ [][NextParser]_vars

\* ------------------------------------------------------------ storage failures
\* The faults of the storage: a batch write fails, the cursor is in error.
\* When both happen in one step the call that comes first in the code
\* fails and the other is never made, which is the outcome of that fault
\* alone.
StorageFaults == {"none", "write", "iterErr"}

\* Runs of one block, of one batch write period, and long enough for the
\* cursor's release to come up.
InitStorage == InitRunOf({1, batchWritePeriod, MaxBigRun - 1})

\* One pass of execute in which the storage may fail at any point.
NextStorage ==
    \/ passes = 0 /\ ExecStart(TRUE)
    \/ \E fault \in StorageFaults : ExecStep(fault)
    \/ \E fault \in StorageFaults : ExecFinish(fault, FALSE)
    \/ ExecExit

SpecStorage == InitStorage /\ [][NextStorage]_vars

\* ------------------------------------------------------------ executor to the end
\* Any pending store whose heights are the tree's: a run around the batch
\* write period, or any set of the heights 1..MaxFetchHeight, stale
\* heights included.
InitDrain == InitRun \/ InitFetch

\* Whether a step of NextBig is possible: a pass can start, the loop of a
\* running pass can go on or end, or the result can be taken.
Runnable == (pc = "idle" /\ passes < MaxPasses) \/ pc \in {"loop", "returned"}

\* One pass of execute that is neither cancelled nor fails and that is
\* not kept from running (the call is synchronous): weak fairness of
\* NextBig, with the condition under which NextBig can step written out.
SpecDrain ==
    /\ InitDrain
    /\ [][NextBig]_vars
    /\ ([]<>(~Runnable) \/ []<><<NextBig>>_vars)

\* ------------------------------------------------------------ interval tree alone
\* A call of interval.Add on the chain's block of height h; ret keeps
\* whether h was tracked and what Len() was when the call began.
AddBlock(h) ==
    /\ pc = "idle"
    /\ LET a == Add([db |-> db, tree |-> tree, num |-> numKnownHeights],
                    lastAcceptedHeight, Block(h))
       IN  /\ db' = a.db
           /\ tree' = a.tree
           /\ numKnownHeights' = a.num
           /\ ret' = [NoReturn EXCEPT !.op = "Add", !.found = a.wantsParent,
                                      !.height = h,
                                      !.tracked = TreeContains(tree, h),
                                      !.before = TreeLen([tree |-> tree,
                                                          num |-> numKnownHeights])]
    /\ R' = R \cup {h}
    /\ UNCHANGED <<lastAcceptedHeight, missingBlockIDs, numAccepted, pc, execVars,
                   passes, removedAny, histVars, cancelledAccepted>>

\* A call of interval.Remove on height h with a batch that is written at once.
RemoveHeight(h) ==
    /\ pc = "idle"
    /\ LET r == Remove([batch |-> {}, tree |-> tree, num |-> numKnownHeights], h)
       IN  /\ db' = DeleteBlocks(db, r.batch)
           /\ tree' = r.tree
           /\ numKnownHeights' = r.num
    /\ ret' = [NoReturn EXCEPT !.op = "Remove", !.height = h,
                               !.tracked = TreeContains(tree, h),
                               !.before = TreeLen([tree |-> tree,
                                                   num |-> numKnownHeights])]
    /\ R' = R \ {h}
    /\ removedAny' = TRUE
    /\ UNCHANGED <<lastAcceptedHeight, missingBlockIDs, numAccepted, pc, execVars,
                   passes, histVars, cancelledAccepted>>

InitTree ==
    /\ lastAcceptedHeight \in 0 .. MaxGapHeight
    /\ tree = {}
    /\ numKnownHeights = 0
    /\ db = EmptyStore
    /\ R = {}
    /\ InitCommon

\* Insertions and removals of any heights in any order.
NextTree ==
    \/ \E h \in 1 .. MaxGapHeight : AddBlock(h)
    \/ \E h \in 1 .. MaxGapHeight : RemoveHeight(h)

SpecTree == InitTree /\ [][NextTree]_vars

\* ------------------------------------------------------------ properties
\* The Verify and Accept calls among the calls of a pass, in order.
IsVerifyOrAccept(e) == e[1] \in {"Verify", "Accept"}

VerifyAcceptCalls(ev) == SelectSeq(ev, IsVerifyOrAccept)

\* Verify then Accept on each height of lo..hi, ascending.
ExpectedCalls(lo, hi) ==
    [k \in 1 .. 2 * (hi - lo + 1) |->
        <<IF k % 2 = 1 THEN "Verify" ELSE "Accept", lo + ((k - 1) \div 2), "nil">>]

\* The pass began with store and tree holding exactly H+1..H+K, K >= 1.
StartedOnRunAboveAccepted ==
    /\ startDB # {}
    /\ startTree = startDB
    /\ startDB = (lastAcceptedHeight + 1) .. (lastAcceptedHeight + Cardinality(startDB))

\* C1: a pass of execute that began with the store and the tree holding
\* exactly the heights H+1..H+K (H the last accepted height) and returned
\* nil called Verify and Accept on exactly those K blocks, each once, in
\* ascending height order (Verify(H+1), Accept(H+1), Verify(H+2), ...), and
\* left the tree empty.
C1_ExecutorExactness ==
    (pc = "returned" /\ ret.err = "nil" /\ StartedOnRunAboveAccepted)
        => /\ VerifyAcceptCalls(events)
                = ExpectedCalls(lastAcceptedHeight + 1,
                                lastAcceptedHeight + Cardinality(startDB))
           /\ tree = {}
           /\ numKnownHeights = 0

\* A pass over more blocks than one batch holds returned nil with the tree
\* empty, above a last accepted height of 1.
C1_Witness ==
    /\ pc = "returned"
    /\ ret.err = "nil"
    /\ StartedOnRunAboveAccepted
    /\ lastAcceptedHeight = 1
    /\ Cardinality(startDB) > batchWritePeriod
    /\ Len(events) = 3 * Cardinality(startDB)
    /\ tree = {}

\* C2: after any sequence of Add and Remove calls the intervals of the tree
\* are well formed (lower <= upper), pairwise disjoint and pairwise
\* non-adjacent: a.upper + 1 < b.lower whenever a.lower < b.lower, and no
\* two distinct intervals share a lower bound.
C2_TreeInvariant ==
    /\ \A i \in tree : i.LowerBound <= i.UpperBound
    /\ \A a, b \in tree :
          a # b => /\ a.LowerBound # b.LowerBound
                   /\ a.LowerBound < b.LowerBound => a.UpperBound + 1 < b.LowerBound

\* Removing height 4 split an interval: [2,3] and [5,6] are left.
C2_Witness ==
    /\ ret.op = "Remove"
    /\ ret.height = 4
    /\ tree = {Interval(2, 3), Interval(5, 6)}

\* The maximal runs of consecutive heights of the set S.
MaxRuns(S) ==
    {i \in {Interval(l, u) : l \in S, u \in S} :
        /\ i.LowerBound <= i.UpperBound
        /\ \A h \in i.LowerBound .. i.UpperBound : h \in S
        /\ i.LowerBound - 1 \notin S
        /\ i.UpperBound + 1 \notin S}

\* C3: after insertions only (any order, repetitions allowed) of the
\* heights R, Flatten returns exactly the maximal runs of consecutive
\* heights of R, each once, in ascending order of lower bound; their union
\* is R.  The result depends on R alone, not on the insertion order.
C3_FlattenIsMaximalRuns ==
    ~removedAny =>
        LET f == Flatten(tree)
        IN  /\ {f[k] : k \in 1 .. Len(f)} = MaxRuns(R)
            /\ Len(f) = Cardinality(MaxRuns(R))
            /\ \A k \in 1 .. Len(f) - 1 : f[k].LowerBound < f[k + 1].LowerBound
            /\ UNION {f[k].LowerBound .. f[k].UpperBound : k \in 1 .. Len(f)} = R

\* Insertions alone produced the three runs [1,2], [4,4], [6,7].
C3_Witness ==
    /\ ~removedAny
    /\ ret.op = "Add"
    /\ R = {1, 2, 4, 6, 7}
    /\ Flatten(tree) = <<Interval(1, 2), Interval(4, 4), Interval(6, 7)>>

\* getMissingBlockIDs has just returned a set without error.
Resolved == ret.op = "getMissingBlockIDs" /\ ret.err = "nil"

\* C4: getMissingBlockIDs returns the empty set exactly when every height
\* from lastAcceptedHeight + 1 up to each tracked height is tracked (the
\* tracked heights and the accepted prefix form one contiguous run); an
\* empty tree yields the empty set.
C4_EmptyIffContiguous ==
    Resolved =>
        /\ (ret.ids = {}) <=>
              (\A h \in R : \A k \in (lastAcceptedHeight + 1) .. h : k \in R)
        /\ R = {} => ret.ids = {}

\* The tree [1,5] above last accepted height 2 resolves to the empty set.
C4_Witness ==
    /\ Resolved
    /\ lastAcceptedHeight = 2
    /\ R = 1 .. 5
    /\ ret.ids = {}

\* The lower bounds of the runs of R not connected to the accepted prefix.
GappedLowerBounds == {h \in R : h - 1 \notin R /\ h > lastAcceptedHeight + 1}

\* C5: getMissingBlockIDs returns exactly the parent IDs of the blocks
\* stored at the lower bounds of the intervals whose lower bound is above
\* lastAcceptedHeight + 1; for the trees {[4,4],[6,7]} and
\* {[1,1],[4,4],[6,7]} with last accepted height 2 that is the IDs of the
\* blocks 3 and 5, and not the parent of block 7 (the ID of block 6).
C5_OneHopPerGap ==
    Resolved =>
        /\ ret.ids = {ParseBlock(db[h]).Parent : h \in GappedLowerBounds}
        /\ (lastAcceptedHeight = 2 /\ R \in {{4, 6, 7}, {1, 4, 6, 7}})
              => (ret.ids = {IDOf(3), IDOf(5)} /\ IDOf(6) \notin ret.ids)

\* The scenario tree {[1,1],[4,4],[6,7]} was resolved to blocks 3 and 5.
C5_Witness ==
    /\ Resolved
    /\ lastAcceptedHeight = 2
    /\ tree = {Interval(1, 1), Interval(4, 4), Interval(6, 7)}
    /\ ret.ids = {IDOf(3), IDOf(5)}

\* C6: interval.Add returns wantsParent = TRUE exactly when, after the
\* insertion, the interval covering the block's height starts at that
\* height and the height is above lastAcceptedHeight + 1; so it is FALSE
\* for a height <= lastAcceptedHeight + 1 and for a height whose
\* predecessor is tracked.
C6_WantsParent ==
    ret.op = "Add" =>
        /\ ret.found <=>
              /\ \E i \in tree : Contains(i, ret.height) /\ i.LowerBound = ret.height
              /\ ret.height > lastAcceptedHeight + 1
        /\ ret.height <= lastAcceptedHeight + 1 => ~ret.found
        /\ ret.height - 1 \in R => ~ret.found

\* Height 5 was added below 6 with a gap under it: its parent is wanted.
C6_Witness ==
    /\ ret.op = "Add"
    /\ ret.height = 5
    /\ ret.found
    /\ lastAcceptedHeight = 2
    /\ tree = {Interval(2, 2), Interval(5, 6)}

\* The height at which a walk down from height h stops asking for parents:
\* the highest s <= h that is <= lastAcceptedHeight + 1 or whose
\* predecessor is tracked.
StopHeight(h) ==
    CHOOSE s \in 1 .. h :
        /\ s <= lastAcceptedHeight + 1 \/ (s - 1) \in R
        /\ \A t \in (s + 1) .. h : ~(t <= lastAcceptedHeight + 1 \/ (t - 1) \in R)

\* A step of process that no storage failure ended and whose ancestor map
\* holds every block of the chain between the stop height and its block.
ChainComplete ==
    /\ pc = "idle"
    /\ pc' = "done"
    /\ ret'.op = "process"
    /\ ret'.err # "add"
    /\ ret'.linked <= StopHeight(ret'.height)

\* C7: a call of process whose ancestor map holds the whole chain below
\* the block walks it once, one Add per height from the block's height down
\* to the first height that is <= lastAcceptedHeight + 1 or whose
\* predecessor is tracked, adds exactly those heights, and returns no
\* next-needed ID; every call returns either no ID (found = FALSE, the
\* empty ID) or one ID (found = TRUE).
C7_SingleWalk ==
    /\ [](ret.op = "process" => (ret.found <=> ret.id # Empty))
    /\ [][ChainComplete =>
            LET h == ret'.height
            IN  /\ ~ret'.found
                /\ ret'.err = "nil"
                /\ ret'.n = h - StopHeight(h) + 1
                /\ R' = R \cup (StopHeight(h) .. h)
                /\ Covered(tree') = Covered(tree) \cup (StopHeight(h) .. h)]_vars

\* A walk of three blocks, 3 then 2 then 1, ended at lastAcceptedHeight + 1
\* with nothing more to fetch.
C7_Witness ==
    /\ ret.op = "process"
    /\ ret.err = "nil"
    /\ ~ret.found
    /\ ret.n = 3
    /\ lastAcceptedHeight = 0
    /\ R = {1, 2, 3}

\* The heights a trace of calls is about.
HeightsOf(ev) == {ev[k][2] : k \in 1 .. Len(ev)}

\* C8: when execute returns by cancellation every queued deletion has been
\* written: the batch is empty and the store holds exactly the blocks the
\* pass did not process (none it accepted or skipped, all the others); the
\* deletions queued when the loop stopped are written in one final batch
\* write; and no pass verifies or accepts a block that a cancelled pass
\* before it accepted.
C8_CancellationFlushes ==
    /\ []((pc = "returned" /\ ret.err = "cancelled") =>
            /\ batch = {}
            /\ processedSinceBatchWrite = 0
            /\ DOMAIN db = startDB \ Range(yielded))
    /\ [](HeightsOf(events) \cap cancelledAccepted = {})
    /\ [][(pc = "loop" /\ pc' = "returned" /\ ret'.err = "cancelled" /\ batch # {}) =>
            /\ writes' = Append(writes, <<Len(yielded), Cardinality(batch)>>)
            /\ DOMAIN db' = DOMAIN db \ batch]_vars

\* A pass was cancelled after 40 blocks of 66; the next pass started on the
\* 26 blocks left and accepted exactly those.
C8_Witness ==
    /\ pc = "returned"
    /\ ret.err = "nil"
    /\ lastAcceptedHeight = 0
    /\ cancelledAccepted = 1 .. 40
    /\ startDB = 41 .. 66
    /\ AcceptedIn(events) = 41 .. 66

\* C9: a pass that returns nil has processed every stored block exactly
\* once, in ascending order, whatever the number N of stored blocks; the
\* cursor was released and taken again once per 1024 processed entries; a
\* batch of 64 deletions was written at every multiple of 64 and the rest
\* in the final write; for N = 1025 the one release is at 1024 and the
\* 1025th block is processed once, after it.
C9_ExactlyOnceAcrossRelease ==
    /\ \A k \in 1 .. Len(yielded) - 1 : yielded[k] < yielded[k + 1]
    /\ pc = "loop" =>
          /\ writes = [j \in 1 .. (Len(yielded) \div batchWritePeriod) |->
                          <<j * batchWritePeriod, batchWritePeriod>>]
          /\ releases = [j \in 1 .. (Len(yielded) \div iteratorReleasePeriod) |->
                            j * iteratorReleasePeriod]
    /\ (pc = "returned" /\ ret.err = "nil") =>
          LET N == Cardinality(startDB)
              full == N \div batchWritePeriod
          IN  /\ Len(yielded) = N
              /\ Range(yielded) = startDB
              /\ releases = [j \in 1 .. (N \div iteratorReleasePeriod) |->
                                j * iteratorReleasePeriod]
              /\ Len(writes) = full + (IF N % batchWritePeriod = 0 THEN 0 ELSE 1)
              /\ \A j \in 1 .. full :
                    writes[j] = <<j * batchWritePeriod, batchWritePeriod>>
              /\ N % batchWritePeriod # 0 =>
                    writes[full + 1] = <<N, N % batchWritePeriod>>
              /\ N = 1025 => /\ releases = <<1024>>
                             /\ yielded[1025] = yielded[1024] + 1
                             /\ writes[17] = <<1025, 1>>

\* 1025 blocks above last accepted height 0 were executed with one release.
C9_Witness ==
    /\ pc = "returned"
    /\ ret.err = "nil"
    /\ startDB = 1 .. 1025
    /\ Len(yielded) = 1025
    /\ releases = <<1024>>
    /\ Len(writes) = 17

\* C10: every Accept (the hook, then the wrapped Accept) of a pass comes
\* right after a Verify of the same block that returned no error, and only
\* blocks above the last accepted height are verified; when Verify or
\* Accept fails, execute returns an error carrying the ID and the height of
\* that block, and that block is the last one the pass parsed, verified or
\* accepted.
C10_VerifyThenAccept ==
    /\ \A k \in 1 .. Len(events) :
          /\ events[k][2] > lastAcceptedHeight
          /\ events[k][1] = "Hook" =>
                k > 1 /\ events[k - 1] = <<"Verify", events[k][2], "nil">>
          /\ events[k][1] = "Accept" =>
                k > 1 /\ events[k - 1] = <<"Hook", events[k][2], "nil">>
          /\ events[k][3] = "err" => k = Len(events)
    /\ (pc = "returned" /\ ret.err \in {"verify", "hook", "accept"}) =>
          /\ events # <<>>
          /\ events[Len(events)][2] = ret.height
          /\ events[Len(events)][3] = "err"
          /\ events[Len(events)][1] = (IF ret.err = "verify" THEN "Verify"
                                       ELSE IF ret.err = "hook" THEN "Hook"
                                       ELSE "Accept")
          /\ ret.id = ParseBlock(db[ret.height]).ID
          /\ yielded[Len(yielded)] = ret.height
    /\ (pc = "returned" /\ ret.err \notin {"verify", "hook", "accept"}) =>
          \A k \in 1 .. Len(events) : events[k][3] = "nil"

\* Blocks 1 and 2 were accepted, then Verify of block 3 failed.
C10_Witness ==
    /\ pc = "returned"
    /\ ret.err = "verify"
    /\ ret.height = 3
    /\ ret.id = IDOf(3)
    /\ Len(events) = 7
    /\ events[7] = <<"Verify", 3, "err">>

\* An iteration of the loop of execute on a stored block whose height is at
\* or below the last accepted height.
StaleStep ==
    /\ pc = "loop"
    /\ yielded' # yielded
    /\ ParseBlock(iterator[Min(DOMAIN iterator)]).Height <= lastAcceptedHeight

\* C11: execute never calls Verify or Accept (nor the hook) on a stored
\* block of height <= lastAcceptedHeight; the iteration on such a block
\* still removes its height from the tree and queues the deletion of its
\* bytes (written at once when the batch is due), counts it as processed,
\* and the loop goes on with the next block without error.
C11_StaleEntriesSkipped ==
    /\ [](\A k \in 1 .. Len(events) : events[k][2] > lastAcceptedHeight)
    /\ [][StaleStep =>
            LET h == yielded'[Len(yielded')]
            IN  /\ h <= lastAcceptedHeight
                /\ events' = events
                /\ numAccepted' = numAccepted
                /\ h \notin Covered(tree')
                /\ Covered(tree') = Covered(tree) \ {h}
                /\ h \in Covered(tree) => numKnownHeights' = numKnownHeights - 1
                /\ h \in batch' \/ h \notin DOMAIN db'
                /\ pc' = "loop"
                /\ ret' = ret]_vars

\* The stale block 1 (last accepted height 1) was dropped and block 2
\* executed after it; neither is tracked any more.
C11_Witness ==
    /\ pc = "loop"
    /\ lastAcceptedHeight = 1
    /\ yielded = <<1, 2>>
    /\ events = <<<<"Verify", 2, "nil">>, <<"Hook", 2, "nil">>, <<"Accept", 2, "nil">>>>
    /\ batch = {1, 2}
    /\ 1 \notin Covered(tree)

\* The calls of the block-accepted hook among the calls of a pass.
IsHook(e) == e[1] = "Hook"

HookCalls(ev) == SelectSeq(ev, IsHook)

\* C12: blockAcceptor.Accept calls the block-accepted hook, with the ID and
\* the bytes of the block, before the wrapped block's Accept.  When the
\* hook fails the wrapped Accept is not called and the hook's error is what
\* Accept returns (execute stops on it); when the hook succeeds the wrapped
\* Accept is called once, right after it, and its result is returned.
C12_HookBeforeAccept ==
    /\ Len(hooked) = Len(HookCalls(events))
    /\ \A j \in 1 .. Len(hooked) :
          LET h == HookCalls(events)[j][2]
          IN  hooked[j] = <<IDOf(h), Bytes(Block(h))>>
    /\ \A k \in 1 .. Len(events) :
          LET h == events[k][2]
          IN  /\ events[k][1] = "Accept" =>
                    k > 1 /\ events[k - 1] = <<"Hook", h, "nil">>
              /\ events[k] = <<"Hook", h, "nil">> =>
                    /\ k < Len(events)
                    /\ events[k + 1][1] = "Accept"
                    /\ events[k + 1][2] = h
              /\ events[k] = <<"Hook", h, "err">> =>
                    /\ k = Len(events)
                    /\ pc = "returned"
                    /\ ret.err = "hook"
                    /\ ret.height = h
              /\ events[k] = <<"Accept", h, "err">> =>
                    /\ k = Len(events)
                    /\ pc = "returned"
                    /\ ret.err = "accept"
                    /\ ret.height = h
              /\ events[k] = <<"Accept", h, "nil">> =>
                    ~(pc = "returned" /\ ret.err = "accept" /\ k = Len(events))
    /\ \A j, k \in 1 .. Len(events) :
          (j < k /\ events[j][1] = events[k][1]) => events[j][2] # events[k][2]
    /\ (pc = "returned" /\ ret.err = "hook") =>
          events # <<>> /\ events[Len(events)] = <<"Hook", ret.height, "err">>
    /\ (pc = "returned" /\ ret.err = "accept") =>
          events # <<>> /\ events[Len(events)] = <<"Accept", ret.height, "err">>

\* Block 1 was accepted, then the hook failed on block 2: the wrapped
\* Accept of block 2 was never called.
C12_Witness ==
    /\ pc = "returned"
    /\ ret.err = "hook"
    /\ lastAcceptedHeight = 0
    /\ events = <<<<"Verify", 1, "nil">>, <<"Hook", 1, "nil">>, <<"Accept", 1, "nil">>,
                  <<"Verify", 2, "nil">>, <<"Hook", 2, "err">>>>
    /\ hooked = <<<<IDOf(1), Bytes(Block(1))>>, <<IDOf(2), Bytes(Block(2))>>>>

\* C13: inserting a height that is tracked (a second insertion, right
\* after the first or at any later point while the height is still
\* tracked) leaves the intervals of the tree and Len() exactly as they
\* were before that insertion.
C13_InsertIdempotent ==
    [][(ret'.op = "Add" /\ ret'.tracked) =>
          /\ tree' = tree
          /\ Flatten(tree') = Flatten(tree)
          /\ numKnownHeights' = numKnownHeights
          /\ TreeLen([tree |-> tree', num |-> numKnownHeights']) = ret'.before]_vars

\* Height 4 was inserted again inside the interval [3,5], next to [7,7].
C13_Witness ==
    /\ ret.op = "Add"
    /\ ret.tracked
    /\ ret.height = 4
    /\ ret.before = 4
    /\ tree = {Interval(3, 5), Interval(7, 7)}
    /\ numKnownHeights = 4

\* C14: when the read of the stored block at a gapped interval's lower
\* bound fails, or its parse fails, getMissingBlockIDs returns that error
\* and no ID at all, however many parent IDs the intervals before it had
\* given; it returns an error in no other case.
C14_AllOrNothing ==
    ret.op = "getMissingBlockIDs" =>
        /\ ret.n > 0 => ret.err \in {"get", "parse"}
        /\ ret.n = 0 => ret.err = "nil"
        /\ ret.err # "nil" => ret.ids = {}

\* The parse of the block at the second gapped interval [6,7] failed after
\* the parent of block 4 had been collected: nothing is returned.
C14_Witness ==
    /\ ret.op = "getMissingBlockIDs"
    /\ ret.n = 2
    /\ ret.err = "parse"
    /\ ret.ids = {}
    /\ lastAcceptedHeight = 2
    /\ tree = {Interval(4, 4), Interval(6, 7)}

\* C15: between operations (no call of process and no pass of execute is
\* running), after calls of process and passes of execute that returned nil
\* or by cancellation, the heights stored in the Pending Block Store are
\* exactly the heights the tree covers, and the tree rebuilt from the keys
\* of the store is the tree in memory, with the same Len().
C15_StoreTreeAgreement ==
    pc \in {"idle", "done", "returned"} =>
        /\ DOMAIN db = Covered(tree)
        /\ TreeOfSet(DOMAIN db) = [tree |-> tree, num |-> numKnownHeights]

\* A pass over the stored heights 1..3 was cancelled after block 1: the
\* store and the tree both hold 2..3.
C15_Witness ==
    /\ pc = "returned"
    /\ ret.err = "cancelled"
    /\ yielded = <<1>>
    /\ startDB = {1, 2, 3}
    /\ DOMAIN db = {2, 3}
    /\ tree = {Interval(2, 3)}

\* C16: the accepted-block counter counts the blocks accepted during
\* bootstrapping: every step of a pass raises it by the number of Accept
\* calls of that step for which the hook and the wrapped block's Accept
\* both succeeded, so that it always equals the number of such calls.
C16_CounterCountsAccepted ==
    [][pc = "loop" =>
          numAccepted' - numAccepted =
              Cardinality(AcceptedIn(events')) - Cardinality(AcceptedIn(events))]_vars

\* The sum of the sizes of the intervals of a sequence.
RECURSIVE SumSizes(_)
SumSizes(f) ==
    IF f = <<>> THEN 0
    ELSE (Head(f).UpperBound - Head(f).LowerBound + 1) + SumSizes(Tail(f))

\* C17: Len() is the number of distinct tracked heights, which is the sum
\* of the sizes of the intervals Flatten() returns; the insertion of an
\* untracked height raises it by exactly 1, the insertion of a tracked
\* height leaves it unchanged, and the Remove of a tracked height lowers
\* it by exactly 1.
C17_LenCountsHeights ==
    LET len == TreeLen([tree |-> tree, num |-> numKnownHeights])
    IN  /\ len = Cardinality(Covered(tree))
        /\ len = SumSizes(Flatten(tree))
        /\ len = Cardinality(R)
        /\ ret.op = "Add" => len = ret.before + (IF ret.tracked THEN 0 ELSE 1)
        /\ (ret.op = "Remove" /\ ret.tracked) => len = ret.before - 1

\* Height 7 was removed from the tree {[1,2],[6,7]}: Len() went from 4 to 3.
C17_Witness ==
    /\ ret.op = "Remove"
    /\ ret.tracked
    /\ ret.height = 7
    /\ ret.before = 4
    /\ tree = {Interval(1, 2), Interval(6, 6)}
    /\ numKnownHeights = 3

\* The loop of execute stops because its test sees the context cancelled,
\* and execute returns.
StopsOnCancellation == pc = "loop" /\ ctxErr /\ pc' = "returned"

\* C18, as claimed: when execute stops because the cancellation is observed
\* the only value it returns is the context's error, never a storage,
\* parse, verify or accept error, and it returns only after the final
\* flush.
C18_OnlyTheContextError ==
    [][StopsOnCancellation =>
          /\ ret'.err = "cancelled"
          /\ batch' = {}
          /\ DOMAIN db' = DOMAIN db \ batch]_vars

\* C18, amended: when execute stops because the cancellation is observed
\* it returns the context's error, after the final flush has been written,
\* unless the final flush or the check of the cursor fails, in which case it
\* returns that storage error; it never returns a parse, verify or accept
\* error then, and calls nothing more on any block.  When the cursor is
\* exhausted and neither the final flush nor the cursor fails and the
\* context is not cancelled, it returns nil.
C18_CancellationIsNotFailure ==
    /\ [][StopsOnCancellation =>
            /\ ret'.err \in {"cancelled", "write", "iterErr"}
            /\ events' = events
            /\ yielded' = yielded
            /\ ret'.err \in {"cancelled", "iterErr"} =>
                  /\ batch' = {}
                  /\ processedSinceBatchWrite' = 0
                  /\ DOMAIN db' = DOMAIN db \ batch
            /\ ret'.err = "write" => batch # {} /\ db' = db]_vars
    /\ [][(pc = "loop" /\ ~ctxErr /\ DOMAIN iterator = {} /\ pc' = "returned"
             /\ ret'.err \notin {"write", "iterErr"}) =>
                ret'.err = (IF ctxErr' THEN "cancelled" ELSE "nil")]_vars

\* A pass over the heights 1..3 was cancelled after two blocks and returned
\* the context's error after writing the two queued deletions.
C18_Witness ==
    /\ pc = "returned"
    /\ ret.err = "cancelled"
    /\ ctxErr
    /\ startDB = {1, 2, 3}
    /\ yielded = <<1, 2>>
    /\ writes = <<<<2, 2>>>>
    /\ batch = {}
    /\ DOMAIN db = {3}

\* C19: process returns a next-needed ID (found = TRUE) exactly when Add
\* returned wantsParent = TRUE for the last block it added and the ancestor
\* map has no entry for that block's parent ID, and the ID it returns is
\* then that parent ID.  The walk goes past a block only when Add returned
\* wantsParent = TRUE for it: once Add returns FALSE the walk stops and
\* process returns the empty ID with found = FALSE, whether or not the map
\* has the parent.
C19_NextNeededID ==
    (ret.op = "process" /\ ret.err = "nil") =>
        LET n == Len(ret.wants)
            last == ret.height - n + 1
        IN  /\ n >= 1
            /\ n = ret.n
            /\ ret.found <=> (ret.wants[n] /\ ~ret.known)
            /\ ret.found => ret.id = Block(last).Parent
            /\ ~ret.found => ret.id = Empty
            /\ \A k \in 1 .. n - 1 : ret.wants[k]
            /\ ~ret.wants[n] => (~ret.found /\ ret.id = Empty)

\* Block 2 was added on top of the tracked height 1: Add returned FALSE and
\* the walk stopped there although the map held block 1.
C19_Witness ==
    /\ ret.op = "process"
    /\ ret.err = "nil"
    /\ lastAcceptedHeight = 0
    /\ ret.height = 3
    /\ ret.wants = <<TRUE, FALSE>>
    /\ ret.known
    /\ ~ret.found
    /\ R = {1, 2, 3}

\* The IDs of the blocks the walk of the last call of process looked at.
VisitedIDs == {IDOf(h) : h \in (ret.height - ret.n + 1) .. ret.height}

\* C20: process removes from the missing set the ID of every block its
\* walk looks at (the block it is given and every ancestor taken from the
\* map; a block at or below the last accepted height, and a block whose Add
\* fails, too), removes no other ID and adds none; an ID of the walk that
\* the set does not hold leaves it as it is.
C20_MissingSetFrame ==
    ret.op = "process" =>
        /\ missingBlockIDs = ret.missingBefore \ VisitedIDs
        /\ missingBlockIDs \subseteq ret.missingBefore
        /\ (ret.missingBefore \cap VisitedIDs = {}) => missingBlockIDs = ret.missingBefore

\* A walk over the blocks 3 and 2 took their IDs out of the missing set and
\* left the IDs of the blocks 0 and 1 in it.
C20_Witness ==
    /\ ret.op = "process"
    /\ ret.height = 3
    /\ ret.n = 2
    /\ ret.missingBefore = {IDOf(0), IDOf(1), IDOf(2), IDOf(3)}
    /\ missingBlockIDs = {IDOf(0), IDOf(1)}

\* ------------------------------------------------------------ C21
\* A step of the running pass wrote the batch to the store.
WroteBatch == Len(writes') = Len(writes) + 1

\* A step of the loop of execute: the cursor yielded one more entry.
LoopStep == pc = "loop" /\ Len(yielded') = Len(yielded) + 1

\* C21: bounded batch.  At the start of every iteration of the loop fewer
\* than batchWritePeriod deletions are queued and unwritten, no write ever
\* carries more than batchWritePeriod of them, and whatever state the pass
\* is in the batch holds at most batchWritePeriod; an iteration writes and
\* resets the batch exactly when it is the batchWritePeriod-th since the
\* previous write; and the flush at the end of the pass touches the store
\* not at all when nothing was processed since the last write.
C21_BoundedBatch ==
    /\ [](/\ (pc = "loop" => (/\ Cardinality(batch) < batchWritePeriod
                             /\ Cardinality(batch) = processedSinceBatchWrite))
          /\ Cardinality(batch) <= batchWritePeriod
          /\ \A k \in 1 .. Len(writes) : writes[k][2] <= batchWritePeriod)
    /\ [][/\ (LoopStep /\ WroteBatch) =>
                (/\ processedSinceBatchWrite + 1 = batchWritePeriod
                 /\ writes'[Len(writes')][2] = batchWritePeriod
                 /\ batch' = {}
                 /\ processedSinceBatchWrite' = 0
                 /\ DOMAIN db' = DOMAIN db \ (batch \cup {yielded'[Len(yielded')]}))
          /\ (LoopStep /\ ~WroteBatch) => (writes' = writes /\ db' = db)
          /\ (LoopStep /\ ~WroteBatch /\ pc' = "loop") =>
                (/\ processedSinceBatchWrite + 1 < batchWritePeriod
                 /\ batch' = batch \cup {yielded'[Len(yielded')]})
          /\ (pc = "loop" /\ pc' = "returned" /\ yielded' = yielded
                          /\ processedSinceBatchWrite = 0) =>
                (writes' = writes /\ db' = db)]_vars

\* A pass over exactly batchWritePeriod entries returned: the loop wrote
\* the full batch once, and the flush at the end found nothing to write.
C21_Witness ==
    /\ pc = "returned"
    /\ ret.err = "nil"
    /\ Len(yielded) = batchWritePeriod
    /\ writes = <<(<<batchWritePeriod, batchWritePeriod>>)>>
    /\ batch = {}
\* ------------------------------------------------------------ C22
\* A step of the running pass released the cursor and took a new one.
Released == Len(releases') = Len(releases) + 1

\* How many entries the pass had processed when it took the cursor it
\* holds now.
LastRelease == IF releases = <<>> THEN 0 ELSE releases[Len(releases)]

\* C22: bounded cursor lifetime.  The cursor a pass holds has yielded fewer
\* than iteratorReleasePeriod entries whenever an iteration begins, and no
\* cursor yielded more than iteratorReleasePeriod entries before it was
\* released; when the cursor is released and taken again no deletion is
\* queued and unwritten, and the new cursor is a view of the store that
\* holds none of the entries the pass has processed.
C22_BoundedCursorLifetime ==
    /\ [](/\ pc = "loop" => processedSinceIteratorRelease < iteratorReleasePeriod
          /\ processedSinceIteratorRelease = Len(yielded) - LastRelease
          /\ \A k \in 1 .. Len(releases) :
                releases[k] - (IF k = 1 THEN 0 ELSE releases[k - 1])
                    <= iteratorReleasePeriod)
    /\ [][Released =>
             /\ batch' = {}
             /\ processedSinceBatchWrite' = 0
             /\ iterator' = db'
             /\ DOMAIN iterator' \cap Range(yielded') = {}]_vars

\* A pass released its first cursor after iteratorReleasePeriod entries
\* and goes on with a new cursor that has entries left.
C22_Witness ==
    /\ pc = "loop"
    /\ releases = <<iteratorReleasePeriod>>
    /\ DOMAIN iterator # {}
    /\ Cardinality(DOMAIN iterator) = Cardinality(startDB) - iteratorReleasePeriod
\* ------------------------------------------------------------ C23
\* The heights whose deletion the running pass has written to the store.
WrittenDeletions == startDB \ DOMAIN db

\* C23: durable deletion follows acceptance.  In every state of a pass,
\* every height whose deletion is written to the store is the height of a
\* block the pass accepted or skipped as at or below the last accepted
\* height; and when Verify or Accept (the hook or the wrapped Accept)
\* fails on a block, the store still holds the block's bytes when execute
\* has returned.
C23_DeletionFollowsAcceptance ==
    /\ pc \in {"loop", "returned"} =>
          \A h \in WrittenDeletions :
              h <= lastAcceptedHeight \/ h \in AcceptedIn(events)
    /\ (pc = "returned" /\ ret.err \in {"verify", "hook", "accept"}) =>
          ret.height \in DOMAIN db
\* ------------------------------------------------------------ C24
\* The highest tracked height.
Top == CHOOSE h \in Covered(tree) : \A k \in Covered(tree) : k <= h

\* The number of untracked heights between lastAcceptedHeight + 1 and the
\* highest tracked height.
Untracked ==
    IF tree = {} THEN 0
    ELSE Cardinality({h \in (lastAcceptedHeight + 1) .. Top : ~TreeContains(tree, h)})

\* process returns from a call on a delivered block.
DeliveredStep == pc = "idle" /\ pc' = "done" /\ ret'.op = "process"

\* The height of the last block the walk of the returned call looked at.
WalkEnd == ret.height - ret.n + 1

\* C24: gap closing converges.  On the chain, from any tree, when every
\* ID that getMissingBlockIDs or process returns is delivered and handed
\* to process: each delivered block either ends its walk on a block that
\* is at lastAcceptedHeight + 1 or right above a tracked height (and no ID
\* is returned), or makes process return the ID of the untracked parent
\* of the walk's last block; each delivered block lowers the number of
\* untracked heights between lastAcceptedHeight + 1 and the highest
\* tracked height; and in the end getMissingBlockIDs returns the empty
\* set.
C24_GapClosingConverges ==
    /\ [][DeliveredStep =>
             /\ ret'.err = "nil"
             /\ Untracked' < Untracked
             /\ ret'.found =>
                   /\ ret'.id = IDOf(WalkEnd' - 1)
                   /\ WalkEnd' - 1 > lastAcceptedHeight
                   /\ ~TreeContains(tree', WalkEnd' - 1)
             /\ ~ret'.found =>
                   \/ WalkEnd' = lastAcceptedHeight + 1
                   \/ TreeContains(tree', WalkEnd' - 1)]_vars
    /\ <>(ret.op = "getMissingBlockIDs" /\ ret.err = "nil" /\ ret.ids = {})

\* A delivered block and one ancestor from its map closed the last gap:
\* the tree is one run from lastAcceptedHeight + 1 up and nothing is left
\* to fetch.
C24_Witness ==
    /\ pc = "done"
    /\ ret.op = "process"
    /\ ~ret.found
    /\ ret.n = 2
    /\ WalkEnd = lastAcceptedHeight + 1
    /\ missingBlockIDs = {}
    /\ tree = {Interval(lastAcceptedHeight + 1, MaxFetchHeight)}
\* ------------------------------------------------------------ C25
\* The greater of two numbers.
Max2(a, b) == IF a >= b THEN a ELSE b

\* C25: process terminates.  On the chain (every block of the ancestor
\* map is one lower than the block that names it as parent), for every
\* tree and every ancestor map, a call of process on the block of height
\* h returns after at least one and at most
\* max(1, h - lastAcceptedHeight) calls of Add.
C25_ProcessTerminates ==
    ret.op = "process" =>
        /\ ret.n >= 1
        /\ ret.n <= Max2(1, ret.height - lastAcceptedHeight)

\* A walk that needed every call the bound allows: from height 3 down to
\* lastAcceptedHeight + 1 = 1, three calls of Add.
C25_Witness ==
    /\ ret.op = "process"
    /\ ret.err = "nil"
    /\ lastAcceptedHeight = 0
    /\ ret.height = MaxHeight
    /\ ret.n = MaxHeight
    /\ ~ret.found
\* ------------------------------------------------------------ C26
\* The number of batch writes a pass over n entries makes: one per full
\* batch and one for the rest.
WritesFor(n) == (n + batchWritePeriod - 1) \div batchWritePeriod

\* C26: execute terminates and drains.  On every pending store whose
\* heights are the tree's, with no failure and no cancellation, a pass of
\* execute returns in the end; it returns nil, with the tree and the
\* store empty and nothing queued; when the loop ends the queued
\* deletions left, if any, are written in exactly one write, and the pass
\* has then written every stored entry in full batches and that one
\* last write.
C26_TerminatesAndDrains ==
    /\ [](pc = "returned" =>
            /\ ret.err = "nil"
            /\ tree = {}
            /\ numKnownHeights = 0
            /\ db = EmptyStore
            /\ batch = {}
            /\ Range(yielded) = startDB
            /\ Len(writes) = WritesFor(Cardinality(startDB)))
    /\ [][(pc = "loop" /\ pc' = "returned") =>
            writes' = IF batch = {} THEN writes
                      ELSE Append(writes, <<Len(yielded), Cardinality(batch)>>)]_vars
    /\ (pc = "loop" ~> pc = "returned")

\* A pass over 66 entries, the first of them stale, returned after a full
\* batch and a final write of the 2 deletions left.
C26_Witness ==
    /\ pc = "returned"
    /\ ret.err = "nil"
    /\ Cardinality(startDB) = batchWritePeriod + 2
    /\ yielded[1] <= lastAcceptedHeight
    /\ writes = <<(<<batchWritePeriod, batchWritePeriod>>),
                  (<<batchWritePeriod + 2, 2>>)>>
    /\ db = EmptyStore
    /\ tree = {}
\* ------------------------------------------------------------ C27
\* The calls the running pass made on the block of height h, in order,
\* each with its result.
CallsOn(h) ==
    LET on == SelectSeq(events, LAMBDA e : e[2] = h)
    IN  [k \in 1 .. Len(on) |-> <<on[k][1], on[k][3]>>]

\* What a pass may have called on one block: nothing, or Verify, the hook
\* and the wrapped Accept in that order, up to the first call that failed.
AcceptedCalls == <<(<<"Verify", "nil">>), (<<"Hook", "nil">>), (<<"Accept", "nil">>)>>

AllowedCalls ==
    {<<>>,
     AcceptedCalls,
     <<(<<"Verify", "err">>)>>,
     <<(<<"Verify", "nil">>), (<<"Hook", "err">>)>>,
     <<(<<"Verify", "nil">>), (<<"Hook", "nil">>), (<<"Accept", "err">>)>>}

\* C27: the executor with the acceptor-wrapped parser.  Within a pass, the
\* calls on a block above lastAcceptedHeight are Verify, then the
\* block-accepted hook, then the wrapped block's Accept, each made only
\* if the one before returned nil; every block the pass went through
\* without failing got all three; the hook is called at most once per
\* block, on strictly ascending heights, never on a block at or below
\* lastAcceptedHeight nor on one whose Verify failed; and a failure of the
\* hook is the last call of the pass: execute returns the error with the
\* failing block as the last entry the cursor yielded.
C27_AcceptorOrder ==
    /\ \A h \in startDB :
          /\ CallsOn(h) \in AllowedCalls
          /\ h <= lastAcceptedHeight => CallsOn(h) = <<>>
          /\ h \notin Range(yielded) => CallsOn(h) = <<>>
          /\ (/\ h > lastAcceptedHeight
              /\ h \in Range(yielded)
              /\ pc = "returned" => (ret.err \in {"nil", "cancelled"}
                                     \/ h # yielded[Len(yielded)]))
             => CallsOn(h) = AcceptedCalls
    /\ \A j, k \in 1 .. Len(events) : j < k => events[j][2] <= events[k][2]
    /\ \A j, k \in 1 .. Len(HookCalls(events)) :
          j < k => HookCalls(events)[j][2] < HookCalls(events)[k][2]
    /\ \A k \in 1 .. Len(events) :
          events[k] = <<"Hook", events[k][2], "err">> =>
              /\ k = Len(events)
              /\ pc = "returned"
              /\ ret.err = "hook"
              /\ ret.height = events[k][2]
              /\ yielded[Len(yielded)] = events[k][2]

\* With lastAcceptedHeight = 1 a pass over the blocks 1..3 skipped block
\* 1, accepted block 2, and ended on the hook failing for block 3.
C27_Witness ==
    /\ pc = "returned"
    /\ ret.err = "hook"
    /\ lastAcceptedHeight = 1
    /\ yielded = <<1, 2, 3>>
    /\ CallsOn(1) = <<>>
    /\ CallsOn(2) = AcceptedCalls
    /\ CallsOn(3) = <<(<<"Verify", "nil">>), (<<"Hook", "err">>)>>
\* ------------------------------------------------------------ C28
\* The caller has the result of an operation, or none is running.
AtBoundary == pc \in {"idle", "done", "returned"}

\* The heights the tree covers whose deletion the running pass has queued:
\* none unless process added them inside the pass.
Requeued == batch \cap Covered(tree)

\* C28: serialization is required for the store and the tree to agree.
\* As long as no call of process ran inside a pass of execute, the tree
\* covers, whenever an operation has returned, only heights whose bytes
\* the store holds (and inside a pass no tracked height has its deletion
\* queued); when process has added a height inside a pass while the
\* height's deletion was queued, the write of the batch leaves the height
\* covered by the tree and its bytes gone from the store.
C28_SerializationRequired ==
    /\ [](~interleaved =>
            /\ AtBoundary => Covered(tree) \subseteq DOMAIN db
            /\ Requeued = {})
    /\ [][(pc = "loop" /\ Requeued # {} /\ Len(writes') = Len(writes) + 1) =>
            /\ interleaved
            /\ Requeued \subseteq Covered(tree')
            /\ Requeued \cap DOMAIN db' = {}]_vars

\* A pass over the blocks 1..3 returned nil after process had added block
\* 1 again inside it: the tree covers height 1 and the store is empty.
C28_Witness ==
    /\ pc = "returned"
    /\ ret.err = "nil"
    /\ interleaved
    /\ startDB = {1, 2, 3}
    /\ tree = {Interval(1, 1)}
    /\ db = EmptyStore
\* ------------------------------------------------------------ C29
\* What getMissingBlockIDs returns on the store and the tree as they are.
MissingNow == getMissingBlockIDs(db, tree, lastAcceptedHeight, 0, "none").ids

\* A call of process returns.
ProcessReturns == pc = "idle" /\ pc' = "done" /\ ret'.op = "process"

\* The ID getMissingBlockIDs would fetch for the interval that holds the
\* block process was called on is not among the IDs it returns.
NoIDForProcessed ==
    TreeContains(tree, ret.height) =>
        IDOf(Covering(tree, ret.height).LowerBound - 1) \notin MissingNow

FatalReturn ==
    pc = "returned" /\ ret.err \in {"parse", "remove", "verify", "hook", "accept"}

\* The heights whose deletion was queued when the pass last wrote the
\* batch, or before.
WrittenAtLastWrite ==
    IF writes = <<>> THEN {}
    ELSE Range(SubSeq(yielded, 1, writes[Len(writes)][1]))

\* The store is what it was after the last batch write of the pass.
StoreAsAtLastWrite ==
    db = [h \in startDB \ WrittenAtLastWrite |-> Bytes(Block(h))]

\* The iteration that ends the pass with a fatal error writes the batch
\* only as the periodic write does, before the failing call.
NoWriteAfterFailure ==
    (pc = "loop" /\ FatalReturn') =>
        \/ writes' = writes /\ db' = db
        \/ /\ processedSinceBatchWrite + 1 = batchWritePeriod
           /\ ret'.err \in {"verify", "hook", "accept"}
           /\ writes' = Append(writes, <<Len(yielded'), batchWritePeriod>>)

\* The entries the cursor yielded before the one that failed.
YieldedBefore == Range(SubSeq(yielded, 1, Len(yielded) - 1))

\* C30 as stated: when execute returns because parsing, Remove, Verify or
\* Accept failed, the store is as the last batch write of the pass left
\* it and is not written any more, and the tree has dropped every height
\* processed since that write, the height of the failing block included.
C30_NoFlushOnFatalError ==
    /\ [](FatalReturn =>
            /\ StoreAsAtLastWrite
            /\ Covered(tree) = startTree \ Range(yielded))
    /\ [][NoWriteAfterFailure /\ (pc = "returned" => db' = db)]_vars

\* C30, amended: the same, where the height of the failing block is
\* dropped from the tree when Verify or Accept failed; when the parse
\* failed the failing entry is still tracked, and when Remove failed the
\* entries before it are dropped.
C30_NoFlushTreeDropped ==
    /\ [](FatalReturn =>
            /\ StoreAsAtLastWrite
            /\ ret.err \in {"verify", "hook", "accept"} =>
                  Covered(tree) = startTree \ Range(yielded)
            /\ ret.err = "parse" =>
                  Covered(tree) = startTree \ YieldedBefore
            /\ ret.err = "remove" =>
                  /\ Covered(tree) \subseteq startTree \ YieldedBefore
                  /\ startTree \ Range(yielded) \subseteq Covered(tree))
    /\ [][NoWriteAfterFailure /\ (pc = "returned" => db' = db)]_vars

\* Accept failed on the second block after a full batch was written: the
\* store holds the two blocks processed since that write and what the
\* cursor has not yielded, the tree only the latter.
C30_Witness ==
    /\ pc = "returned"
    /\ ret.err = "accept"
    /\ Len(yielded) = batchWritePeriod + 2
    /\ writes = <<(<<batchWritePeriod, batchWritePeriod>>)>>
    /\ Cardinality(batch) = 2
    /\ batch \subseteq DOMAIN db
    /\ batch \cap Covered(tree) = {}
    /\ Covered(tree) # {}
\* ------------------------------------------------------------ C31
\* The entries the cursor still yields after its next one.
RestOfIterator == [k \in DOMAIN iterator \ {Min(DOMAIN iterator)} |-> iterator[k]]

\* C31: a storage failure aborts execute.  When a batch write fails, in the
\* loop or after it, execute returns the write error in that step, the
\* store is as it was, the write is not tried again and the deletions stay
\* queued.  When the cursor is in error at the check before its release,
\* execute returns the cursor's error and the cursor is neither released
\* nor taken again.  When the cursor is in error after the loop, execute
\* returns the cursor's error after the final write of the queued
\* deletions.  In each case no block is verified or accepted in the failing
\* step, and nothing happens after the return but the caller taking it.
C31_StorageFailuresAbort ==
    /\ [](pc = "returned" /\ ret.err = "write"
             => batch # {} /\ batch \subseteq DOMAIN db)
    /\ [][/\ \A fault \in {"write", "iterErr"} :
               (ExecStep(fault) \/ ExecFinish(fault, FALSE))
                   => (/\ pc' = "returned"
                       /\ ret'.op = "execute"
                       /\ ret'.err = fault
                       /\ events' = events
                       /\ numAccepted' = numAccepted)
          /\ ((ExecStep("write") \/ ExecFinish("write", FALSE))
                 => (/\ db' = db
                     /\ writes' = writes
                     /\ batch \subseteq batch'))
          /\ (ExecStep("iterErr")
                 => (/\ releases' = releases
                     /\ iterator' = RestOfIterator))
          /\ (ExecFinish("iterErr", FALSE)
                 => (/\ batch' = {}
                     /\ db' = DeleteBlocks(db, batch)
                     /\ iterator' = iterator))
          /\ (pc = "returned" => pc' = "idle" /\ db' = db /\ tree' = tree)
       ]_vars

\* A cursor error has ended the iteration early, with entries left; the
\* deletions queued since the last write were written before the return.
C31_Witness ==
    /\ pc = "returned"
    /\ ret.err = "iterErr"
    /\ DOMAIN iterator # {}
    /\ batch = {}
    /\ writes # <<>>
    /\ Len(yielded) % batchWritePeriod # 0
    /\ DOMAIN db = startDB \ Range(yielded)

\* ------------------------------------------------------------ C32
\* C32: when process returns without error, every block the walk visited,
\* at or below the last accepted height or above it, has its bytes in the
\* pending store under its height and its height covered by the tree; the
\* heights of the visited blocks are the only ones added to the store and to
\* the tree, and the entries of the other heights are as they were.  With
\* or without error, process removes no height from the tree or the store.
C32_ProcessFrame ==
    [][ProcessReturns =>
          LET visitedHeights == (ret'.height - ret'.n + 1) .. ret'.height
          IN  /\ Covered(tree) \subseteq Covered(tree')
              /\ DOMAIN db \subseteq DOMAIN db'
              /\ ret'.err = "nil" =>
                    /\ \A h \in visitedHeights :
                          /\ h \in DOMAIN db'
                          /\ db'[h] = Bytes(Block(h))
                          /\ TreeContains(tree', h)
                    /\ Covered(tree') = Covered(tree) \cup visitedHeights
                    /\ DOMAIN db' = DOMAIN db \cup visitedHeights
                    /\ \A h \in DOMAIN db \ visitedHeights : db'[h] = db[h]
       ]_vars

\* process has returned without error from a walk over two blocks or more
\* that added heights next to heights tracked before.
C32_Witness ==
    /\ pc = "done"
    /\ ret.op = "process"
    /\ ret.err = "nil"
    /\ ret.n >= 2
    /\ \A h \in (ret.height - ret.n + 1) .. ret.height :
          h \in DOMAIN db /\ TreeContains(tree, h)
    /\ Covered(tree) \ ((ret.height - ret.n + 1) .. ret.height) # {}

\* ------------------------------------------------------------ C33
\* The calls an Accept of a blockAcceptor on block blk adds to
\* the trace, for each way the call can end.
AcceptTrace(blk, fault) ==
    IF fault = "hook" THEN <<(<<"Hook", blk.Height, "err">>)>>
    ELSE <<(<<"Hook", blk.Height, "nil">>),
           (<<"Accept", blk.Height, Outcome(fault = "accept")>>)>>

\* C33: the wrapped parser returns an error exactly when the inner parser
\* fails, and then the inner error and no block; otherwise the block it
\* returns has the ID, the parent ID, the height and the bytes of the inner
\* block, its Verify is the inner block's Verify (same result, nothing
\* counted, no hook), and its Accept counts the block, calls the hook on
\* the inner block's ID and bytes and then, if the hook succeeded, the
\* inner block's Accept, returning the error of the call that failed.
C33_ParserTransparent ==
    /\ [](parsed.op = "ParseBlock" =>
            /\ (parsed.out.err # "nil") <=> (parsed.inner.err # "nil")
            /\ parsed.out.err = parsed.inner.err
            /\ parsed.out.err # "nil" => parsed.out.blk.Block = Nil
            /\ parsed.out.err = "nil" =>
                  /\ parsed.out.blk.acceptor
                  /\ blockAcceptorID(parsed.out.blk) = parsed.inner.blk.ID
                  /\ blockAcceptorParent(parsed.out.blk) = parsed.inner.blk.Parent
                  /\ blockAcceptorHeight(parsed.out.blk) = parsed.inner.blk.Height
                  /\ blockAcceptorBytes(parsed.out.blk) = parsed.bytes)
    /\ [][/\ \A fault \in {"none", "verify"} :
               VerifyParsed(fault) =>
                   /\ ret'.err = (IF fault = "verify" THEN "verify" ELSE "nil")
                   /\ events' = Append(events, <<"Verify", parsed.inner.blk.Height,
                                                 Outcome(fault = "verify")>>)
                   /\ numAccepted' = numAccepted
                   /\ hooked' = hooked
          /\ \A fault \in {"none", "hook", "accept"} :
               AcceptParsed(fault) =>
                   /\ ret'.err = (IF fault = "none" THEN "nil" ELSE fault)
                   /\ numAccepted' = numAccepted + 1
                   /\ hooked' = Append(hooked, <<parsed.inner.blk.ID, parsed.bytes>>)
                   /\ events' = events \o AcceptTrace(parsed.inner.blk, fault)
       ]_vars

\* The wrapped parser has returned a block, and Verify and then Accept
\* were called on it with success: the block was counted, the hook got it.
C33_Witness ==
    /\ parsed.op = "ParseBlock"
    /\ parsed.out.err = "nil"
    /\ ret.op = "Accept"
    /\ ret.err = "nil"
    /\ numAccepted = 1
    /\ events = <<(<<"Verify", parsed.inner.blk.Height, "nil">>),
                  (<<"Hook", parsed.inner.blk.Height, "nil">>),
                  (<<"Accept", parsed.inner.blk.Height, "nil">>)>>
    /\ hooked = <<(<<parsed.inner.blk.ID, parsed.bytes>>)>>

\* ------------------------------------------------------------ C34
\* The cursors of the pass that are held: acquired and not released.
HeldCursors == {k \in 1 .. Len(cursors) : cursors[k] = 0}

\* C34: execute owns its cursors.  At every point at most one cursor is
\* held and none was released twice; while the loop runs the cursor held is
\* the one acquired last; a cursor is acquired only at the start of the
\* pass and when the one before it is released in the loop; and on every
\* return (the end of the cursor, cancellation, an error of the parser, of
\* Remove, Verify, the hook, Accept, a batch write or the cursor) the step
\* that returns releases the cursor acquired last, so that each cursor
\* acquired has been released exactly once.
C34_CursorOwnership ==
    /\ [](/\ Cardinality(HeldCursors) <= 1
          /\ \A k \in 1 .. Len(cursors) : cursors[k] <= 1
          /\ pc = "loop" => HeldCursors = {Len(cursors)}
          /\ pc \in {"loop", "returned"} => Len(cursors) = Len(releases) + 1
          /\ pc = "returned" => \A k \in 1 .. Len(cursors) : cursors[k] = 1)
    /\ [][pc = "loop" /\ pc' = "returned" =>
             /\ cursors'[Len(cursors')] = 1
             /\ Len(cursors') = Len(cursors) => cursors[Len(cursors)] = 0
       ]_vars

\* A pass that released its first cursor in the loop and took a second one
\* has returned with an error of Verify on a later entry.
C34_Witness ==
    /\ pc = "returned"
    /\ ret.err = "verify"
    /\ cursors = <<1, 1>>
    /\ Len(yielded) > iteratorReleasePeriod

\* ------------------------------------------------------------ C35
\* C35: when interval.Add fails during the walk of process, process
\* returns that error with the empty ID and found = false; every block the
\* walk looked at before the failing one had asked for its parent; the IDs
\* of all blocks looked at, the failing one included, are gone from the
\* missing set and no other ID is; and the walk ends there: no block below
\* the failing one is added to the tree or the store, and the ID of none
\* leaves the missing set, even if the ancestor map holds it.
C35_AddFailureStopsWalk ==
    [][ProcessReturns /\ ret'.err # "nil" =>
          LET failing == ret'.height - ret'.n + 1
              lookedAt == {IDOf(h) : h \in failing .. ret'.height}
          IN  /\ ret'.err = "add"
              /\ ret'.id = Empty
              /\ ~ret'.found
              /\ Len(ret'.wants) = ret'.n - 1
              /\ \A k \in 1 .. Len(ret'.wants) : ret'.wants[k]
              /\ failing >= ret'.linked
              /\ missingBlockIDs' = missingBlockIDs \ lookedAt
              /\ (Covered(tree') \ Covered(tree)) \subseteq failing .. ret'.height
              /\ (DOMAIN db' \ DOMAIN db) \subseteq failing .. ret'.height
       ]_vars

\* interval.Add has failed on the second block of a walk, or a later one,
\* whose ID was in the missing set and whose parent is in the ancestor
\* map; the parent's ID is still in the missing set.
C35_Witness ==
    /\ pc = "done"
    /\ ret.op = "process"
    /\ ret.err = "add"
    /\ ret.n >= 2
    /\ ret.known
    /\ IDOf(ret.height - ret.n + 1) \in ret.missingBefore
    /\ IDOf(ret.height - ret.n + 1) \notin missingBlockIDs
    /\ IDOf(ret.height - ret.n) \in missingBlockIDs

\* ------------------------------------------------------------ C36
\* getMissingBlockIDs returns.
ResolverReturns == pc = "idle" /\ pc' = "done" /\ ret'.op = "getMissingBlockIDs"

LenNow == TreeLen([tree |-> tree, num |-> numKnownHeights])

\* The progress execute would log in the state.
ProgressNow == numProcessed(totalNumberToProcess, LenNow)

\* C37: from the start of a pass to its return, whichever way it returns,
\* tree.Len() is at most totalNumberToProcess, so that numProcessed does
\* not wrap around as an unsigned 64-bit value and lies in
\* 0..totalNumberToProcess; it equals the number of the heights tracked at
\* the start that the pass has removed from the tree; and no step of the
\* pass makes it smaller.
C37_ProgressArithmetic ==
    /\ [](pc \in {"loop", "returned"} =>
            /\ LenNow <= totalNumberToProcess
            /\ ProgressNow.wraps = 0
            /\ ProgressNow.low \in 0 .. totalNumberToProcess
            /\ ProgressNow.low = Cardinality(startTree \ Covered(tree)))
    /\ [][pc = "loop" /\ pc' \in {"loop", "returned"} =>
             /\ ProgressNow'.wraps = 0
             /\ ProgressNow'.low >= ProgressNow.low
       ]_vars

\* A cancelled pass has returned after removing some of the tracked heights
\* and not all of them.
C37_Witness ==
    /\ pc = "returned"
    /\ ret.err = "cancelled"
    /\ totalNumberToProcess >= 3
    /\ ProgressNow = [wraps |-> 0, low |-> 2]
    /\ LenNow = totalNumberToProcess - 2
    /\ Cardinality(startTree \ Covered(tree)) = 2

====
